---- MODULE Spec2Model ----
(***************************************************************************)
(* SSDB: a Google-Sheets backed row store.  SheetTable (src/src/           *)
(* SheetTable.ts, lines 4-530) maps header names to column positions and   *)
(* implements insert / select / sort / increment / update over one sheet.  *)
(*                                                                         *)
(* The sheet is modelled as a header row (physical row 1) and the data     *)
(* rows below it (physical rows 2..getLastRow()).  A cell without content  *)
(* reads as the empty string, and the sheet's data range ends at the last  *)
(* row that has content, so `rows` never ends in a blank row.              *)
(***************************************************************************)
EXTENDS Integers, Sequences, FiniteSets, TLC

VARIABLES
    header,          \* the sheet's row 1: a sequence of column names
    rows,            \* the sheet's data rows (physical rows 2..), each of width Len(header)
    columnIndexMap,  \* SheetTable.columnIndexMap, built once by the constructor
    last,            \* the last call made on the table: its arguments and its outcome
    nops,            \* number of calls made in this session
    sheetMap,        \* SpreadsheetDB.sheetMap: sheet name -> the SheetTable made for it
    pending,         \* a call between its read of the sheet and its write
    nedits,          \* number of edits other users of the spreadsheet made
    pendingOther,    \* the same call in another execution of the script
    sheets           \* the names of the sheets the spreadsheet has

vars == <<header, rows, columnIndexMap, last, nops, sheetMap, pending, nedits, pendingOther,
          sheets>>

\* Number of calls of one session.
MaxOps == 2

\* Number of edits other users make during one session.
MaxEdits == 1

\* An offset that forgets the header row: data index 0 becomes physical row 1.
ROW_INDEX_CONVERT_NUM_OffByOne == 2 - 1
\* SheetTable.ROW_INDEX_CONVERT_NUM: data index -> physical row number.
ROW_INDEX_CONVERT_NUM == 2

-----------------------------------------------------------------------------
(* JavaScript values.  Every value is a record of the same shape, so that   *)
(* values of different JavaScript types can be compared.                    *)

Num(n)    == [t |-> "number", n |-> n, s |-> ""]
Str(x)    == [t |-> "string", n |-> 0, s |-> x]
Bool(b)   == [t |-> "boolean", n |-> IF b THEN 1 ELSE 0, s |-> ""]
Null      == [t |-> "null", n |-> 0, s |-> ""]
Undefined == [t |-> "undefined", n |-> 0, s |-> ""]
NaN       == [t |-> "number", n |-> 0, s |-> "NaN"]
\* The content of a cell that holds nothing.
Empty     == Str("")

\* A test for NaN no value passes.
IsNaN_Never(v) == FALSE
IsNaN(v) == v.t = "number" /\ v.s = "NaN"
\* A typeof test every value passes.
IsNumber_AnyType(v) == TRUE
\* typeof v === "number"
IsNumber(v) == v.t = "number"

Digit(d) ==
    CASE d = 0 -> "0" [] d = 1 -> "1" [] d = 2 -> "2" [] d = 3 -> "3"
      [] d = 4 -> "4" [] d = 5 -> "5" [] d = 6 -> "6" [] d = 7 -> "7"
      [] d = 8 -> "8" [] d = 9 -> "9"

RECURSIVE NatStr(_)
NatStr(n) == IF n < 10 THEN Digit(n) ELSE NatStr(n \div 10) \o Digit(n % 10)

\* Number.prototype.toString for integers.
NumStr(n) == IF n < 0 THEN "-" \o NatStr(0 - n) ELSE NatStr(n)

\* String(v)
JsString(v) ==
    CASE v.t = "number"    -> (IF IsNaN(v) THEN "NaN" ELSE NumStr(v.n))
      [] v.t = "string"    -> v.s
      [] v.t = "boolean"   -> (IF v.n = 1 THEN "true" ELSE "false")
      [] v.t = "null"      -> "null"
      [] v.t = "undefined" -> "undefined"

\* The integers a decimal string of the model can denote.
ParseRange == 0..99

\* Number(v), as the relational operators apply it to an operand.
ToNumber(v) ==
    CASE v.t = "number"    -> v
      [] v.t = "string"    ->
            (IF v.s = "" THEN Num(0)
             ELSE IF \E k \in ParseRange : NumStr(k) = v.s
                  THEN Num(CHOOSE k \in ParseRange : NumStr(k) = v.s)
                  ELSE NaN)
      [] v.t = "boolean"   -> Num(v.n)
      [] v.t = "null"      -> Num(0)
      [] v.t = "undefined" -> NaN

\* The strings of the model in code-unit order, the order of < on two strings.
StrOrder == <<"", "1", "5", "7", "a", "b", "q">>
StrRank(x) == CHOOSE i \in 1..Len(StrOrder) : StrOrder[i] = x

\* a < b
JsLess(a, b) ==
    IF a.t = "string" /\ b.t = "string"
    THEN StrRank(a.s) < StrRank(b.s)
    ELSE LET na == ToNumber(a)
             nb == ToNumber(b)
         IN  ~IsNaN(na) /\ ~IsNaN(nb) /\ na.n < nb.n

\* a > b
JsGreater(a, b) == JsLess(b, a)

\* Math.max(a, b): both operands are converted to numbers; NaN if either is NaN.
MathMax(a, b) ==
    LET na == ToNumber(a)
        nb == ToNumber(b)
    IN  IF IsNaN(na) \/ IsNaN(nb) THEN NaN
        ELSE IF na.n >= nb.n THEN na ELSE nb

-----------------------------------------------------------------------------
(* JavaScript arrays and objects.  An array is a sequence (index i of the   *)
(* code is position i + 1); an object is a function from property names.    *)

EmptyObj == [k \in {} |-> Undefined]

\* arr[i] for an array
ElemGet(arr, i) == IF i >= 0 /\ i < Len(arr) THEN arr[i + 1] ELSE Undefined

\* obj[i] for an object and a numeric index: the property named String(i)
PropGet(obj, i) == IF i >= 0 /\ NumStr(i) \in DOMAIN obj THEN obj[NumStr(i)] ELSE Undefined

\* The index a map holds for a name, -1 standing for undefined.
NoIndex == 0 - 1
MapGet(map, name) == IF name \in DOMAIN map THEN map[name] ELSE NoIndex

\* arr[i] = v: no element changes for an undefined index, the array grows
\* (leaving holes) for an index past its end.
ElemSet(arr, i, v) ==
    IF i = NoIndex THEN arr
    ELSE [k \in 1..(IF i + 1 > Len(arr) THEN i + 1 ELSE Len(arr)) |->
             IF k = i + 1 THEN v
             ELSE IF k <= Len(arr) THEN arr[k] ELSE Undefined]

Max(S) == CHOOSE m \in S : \A k \in S : k <= m
\* The last index instead of the first.
Min_Last(S) == CHOOSE m \in S : \A k \in S : k <= m
Min(S) == CHOOSE m \in S : \A k \in S : m <= k

-----------------------------------------------------------------------------
(* The sheet.                                                               *)

Width == Len(header)

BlankRow == [k \in 1..Width |-> Empty]
IsBlankRow(r) == \A k \in 1..Len(r) : r[k] = Empty

\* A sheet keeps content only: a written null or undefined leaves the cell empty.
StoreCell(v) == IF v.t \in {"null", "undefined"} THEN Empty ELSE v

RECURSIVE Trim(_)
\* The data range ends at the last row with content.
Trim(rs) ==
    IF rs # <<>> /\ IsBlankRow(rs[Len(rs)]) THEN Trim(SubSeq(rs, 1, Len(rs) - 1)) ELSE rs

\* sheet.getLastRow(): the header is row 1.
getLastRow(rs) == 1 + Len(rs)

\* The cell of a data row, addressed as the code does (0-based); beyond the
\* data range every cell is empty.
Cell(rs, i, c) == IF i >= 0 /\ i < Len(rs) /\ c >= 0 /\ c < Width THEN rs[i + 1][c + 1] ELSE Empty

\* Row i (0-based data index) of the sheet, blank beyond the data range.
RowAt(rs, i) == IF i >= 0 /\ i < Len(rs) THEN rs[i + 1] ELSE BlankRow

\* setValues on a range that takes row for a data index counted from 1: the
\* block lands one row lower.
WriteBlock_NoHeaderOffset(rs, row, recs, w) ==
    LET first == row - 1
        n     == IF first + Len(recs) > Len(rs) THEN first + Len(recs) ELSE Len(rs)
    IN  Trim([i \in 1..n |->
                 IF i - 1 >= first /\ i - 1 < first + Len(recs)
                 THEN [c \in 1..Width |->
                          IF c <= w THEN StoreCell(recs[i - first][c])
                          ELSE Cell(rs, i - 1, c - 1)]
                 ELSE RowAt(rs, i - 1)])

\* getRange(row, 1, Len(recs), w).setValues(recs), row a physical row number >= 2:
\* cells of columns 1..w of rows row.. take the records' values.
WriteBlock(rs, row, recs, w) ==
    LET first == (row - 1) - 1      \* 0-based data index: row 1 is the header, sliced off
        n     == IF first + Len(recs) > Len(rs) THEN first + Len(recs) ELSE Len(rs)
    IN  Trim([i \in 1..n |->
                 IF i - 1 >= first /\ i - 1 < first + Len(recs)
                 THEN [c \in 1..Width |->
                          IF c <= w THEN StoreCell(recs[i - first][c])
                          ELSE Cell(rs, i - 1, c - 1)]
                 ELSE RowAt(rs, i - 1)])

\* The header row after getRange(row, 1, Len(recs), w).setValues(recs): a block
\* that starts at physical row 1 puts its first record over the header.
HeaderAfterSetValues(row, recs, w) ==
    IF row = 1 /\ Len(recs) >= 1
    THEN [c \in 1..Width |-> IF c <= w THEN JsString(StoreCell(recs[1][c])) ELSE header[c]]
    ELSE header

\* The header row after getRange(row, col).setValue(v).
HeaderAfterSetValue(row, col, v) ==
    IF row = 1 /\ col >= 1 /\ col <= Width
    THEN [header EXCEPT ![col] = JsString(StoreCell(v))]
    ELSE header

\* setValues requires data of exactly the range's dimensions.
FitsRange(recs, w) == w >= 1 /\ w <= Width /\ \A k \in 1..Len(recs) : Len(recs[k]) = w

\* sheet.appendRow(record): the row after the last row with content.
appendRow(rs, record) ==
    Trim(Append(rs, [c \in 1..Width |-> StoreCell(ElemGet(record, c - 1))]))

\* getRange(row, col).setValue(v), row and col physical (1-based).
setValue(rs, row, col, v) ==
    LET i == (row - 1) - 1
        n == IF i + 1 > Len(rs) THEN i + 1 ELSE Len(rs)
    IN  Trim([k \in 1..n |->
                 IF k = i + 1 THEN [c \in 1..Width |-> IF c = col THEN StoreCell(v) ELSE Cell(rs, i, c - 1)]
                 ELSE RowAt(rs, k - 1)])

\* The data rows as the call before this one found them.
getDataset_Kept == last.pre

\* getDataRange().getValues().slice(1)
getDataset_ == rows

-----------------------------------------------------------------------------
(* SheetTable: the private helpers.                                         *)

\* The outcome of a call: the error thrown ("" when the call returns), the
\* array returned, the scalar returned, and the data rows and the header row
\* the call leaves.
Return(res, val, rs) == [err |-> "", res |-> res, val |-> val, rows |-> rs, header |-> header]
Throw(err, rs)       == [err |-> err, res |-> <<>>, val |-> Undefined, rows |-> rs, header |-> header]
\* The outcome of a call that wrote to the sheet, with the header row it leaves.
Wrote(out, h) == [out EXCEPT !.header = h]

getColumnIndexMap_ == columnIndexMap

\* headerRow.forEach((column, index) => map[column] = index): a later column
\* of the same name overwrites the earlier one.
createColumnIndexMap_(headerRow) ==
    [name \in {headerRow[i] : i \in 1..Len(headerRow)} |->
        Max({i - 1 : i \in {j \in 1..Len(headerRow) : headerRow[j] = name}})]

\* getIndexByColumnName_ throws for a name the map does not hold.
KnownColumn(columnName) == MapGet(getColumnIndexMap_, columnName) # NoIndex
getIndexByColumnName_(columnName) == getColumnIndexMap_[columnName]

\* value1 === value2, without the conversion to strings.
valuesMatch_Strict(value1, value2) == value1 = value2
valuesMatch_(value1, value2) == JsString(value1) = JsString(value2)

\* createRecord_ with the values stored under the column's name instead of
\* its index: no element of the array is set.
createRecord_ByName(rowValues, map) ==
    [p \in 1..Cardinality(DOMAIN map) |-> Empty]

\* new Array(Object.keys(map).length).fill(""), then newRecord[map[column]] = value
\* for every key of rowValues the map knows.
createRecord_(rowValues, map) ==
    LET keys == {k \in DOMAIN rowValues : MapGet(map, k) # NoIndex}
        n0   == Cardinality(DOMAIN map)
        n    == Max({n0} \cup {map[k] + 1 : k \in keys})
    IN  [p \in 1..n |->
            IF \E k \in keys : map[k] = p - 1
            THEN rowValues[CHOOSE k \in keys : map[k] = p - 1]
            ELSE IF p <= n0 THEN Empty ELSE Undefined]

\* convertRecordToObj_ reading each column one position to the right.
convertRecordToObj_Shifted(records) ==
    [i \in 1..Len(records) |->
        [column \in DOMAIN getColumnIndexMap_ |->
            ElemGet(records[i], getColumnIndexMap_[column] + 1)]]

\* convertRecordToObj_ applied to positional records (arrays).
convertRecordToObj_(records) ==
    [i \in 1..Len(records) |->
        [column \in DOMAIN getColumnIndexMap_ |->
            ElemGet(records[i], getColumnIndexMap_[column])]]

\* convertRecordToObj_ applied to what a select returned (objects keyed by
\* column name): record[index] reads the property named by the number.
convertRecordToObj_OfObjects(records) ==
    [i \in 1..Len(records) |->
        [column \in DOMAIN getColumnIndexMap_ |->
            PropGet(records[i], getColumnIndexMap_[column])]]

\* An absent sort specification (null).
NoSort == [given |-> FALSE, column |-> "", order |-> ""]
SortBy(column, order) == [given |-> TRUE, column |-> column, order |-> order]

\* records.sort(comparator) as a stable insertion sort; the records are the
\* objects a select returned, read with the numeric column index.
sortData_(records, sortBy) ==
    IF ~sortBy.given THEN [err |-> "", recs |-> records]
    ELSE IF ~KnownColumn(sortBy.column) THEN [err |-> "InvalidColumn", recs |-> <<>>]
    ELSE
      LET index == getIndexByColumnName_(sortBy.column)
          compare(rowA, rowB) ==
              LET valueA == PropGet(rowA, index)
                  valueB == PropGet(rowB, index)
                  comparison == IF JsLess(valueA, valueB) THEN 0 - 1
                                ELSE IF JsGreater(valueA, valueB) THEN 1 ELSE 0
              IN  IF sortBy.order = "ASC" THEN comparison ELSE 0 - comparison
          RECURSIVE Ins(_, _)
          Ins(sorted, x) ==
              IF sorted = <<>> \/ compare(sorted[Len(sorted)], x) <= 0
              THEN Append(sorted, x)
              ELSE Append(Ins(SubSeq(sorted, 1, Len(sorted) - 1), x), sorted[Len(sorted)])
          RECURSIVE Go(_, _)
          Go(done, k) == IF k > Len(records) THEN done ELSE Go(Ins(done, records[k]), k + 1)
      IN  [err |-> "", recs |-> Go(<<>>, 1)]

\* RowEval in which criteria without entries match no row.
RowEval_EmptyMatchesNothing(row, criteria) ==
    LET RECURSIVE Every(_)
        Every(cr) ==
            IF cr = <<>> THEN "match"
            ELSE IF ~KnownColumn(cr[1].k) THEN "throw"
            ELSE IF ~valuesMatch_(ElemGet(row, getIndexByColumnName_(cr[1].k)), cr[1].v)
                 THEN "nomatch"
                 ELSE Every(Tail(cr))
    IN  IF criteria = <<>> THEN "nomatch" ELSE Every(criteria)

\* RowEval that stops at the first entry of the criteria.
RowEval_FirstEntryOnly(row, criteria) ==
    IF criteria = <<>> THEN "match"
    ELSE IF ~KnownColumn(criteria[1].k) THEN "throw"
    ELSE IF ~valuesMatch_(ElemGet(row, getIndexByColumnName_(criteria[1].k)), criteria[1].v)
         THEN "nomatch"
         ELSE "match"

RECURSIVE RowEval(_, _)
\* Object.entries(criteria).every(([columnName, value]) => ...) on one row:
\* entries are tried in order, the first mismatch ends the test, an entry
\* naming an unknown column throws when it is reached.
RowEval(row, criteria) ==
    IF criteria = <<>> THEN "match"
    ELSE IF ~KnownColumn(criteria[1].k) THEN "throw"
    ELSE IF ~valuesMatch_(ElemGet(row, getIndexByColumnName_(criteria[1].k)), criteria[1].v)
         THEN "nomatch"
         ELSE RowEval(row, Tail(criteria))

\* A test every row passes.
MatchingIndices_All(data, index, value) == 0..(Len(data) - 1)

\* The 0-based indices of the rows of data whose cell at index matches value.
MatchingIndices(data, index, value) ==
    {i \in 0..(Len(data) - 1) : valuesMatch_(ElemGet(data[i + 1], index), value)}

\* The rows of data at the 0-based indices of S, in row order.
RowsAt(data, S) ==
    LET RECURSIVE Pick(_)
        Pick(k) == IF k > Len(data) THEN <<>>
                   ELSE IF (k - 1) \in S THEN <<data[k]>> \o Pick(k + 1) ELSE Pick(k + 1)
    IN  Pick(1)

-----------------------------------------------------------------------------
(* SheetTable: the public operations.  Each is the outcome of one call on   *)
(* the current sheet.                                                       *)

insert(rowValues) ==
    LET record == createRecord_(rowValues, getColumnIndexMap_)
    IN  Return(<<>>, Num(1), appendRow(rows, record))

\* insertAll that returns 0 for an empty array instead of reading records[0].
insertAll_EmptyReturnsZero(rowValuesArray) ==
    LET records == [i \in 1..Len(rowValuesArray) |->
                       createRecord_(rowValuesArray[i], getColumnIndexMap_)]
        row     == getLastRow(rows) + ROW_INDEX_CONVERT_NUM
    IN  IF Len(records) = 0 THEN Return(<<>>, Num(0), rows)
        ELSE IF ~FitsRange(records, Len(records[1])) THEN Throw("StoreError", rows)
        ELSE Wrote(Return(<<>>, Num(Len(records)), WriteBlock(rows, row, records, Len(records[1]))),
                   HeaderAfterSetValues(row, records, Len(records[1])))

insertAll(rowValuesArray) ==
    LET records == [i \in 1..Len(rowValuesArray) |->
                       createRecord_(rowValuesArray[i], getColumnIndexMap_)]
        row     == getLastRow(rows) + ROW_INDEX_CONVERT_NUM
    IN  IF Len(records) = 0 THEN Throw("TypeError", rows)    \* records[0].length of undefined
        ELSE IF ~FitsRange(records, Len(records[1])) THEN Throw("StoreError", rows)
        ELSE Wrote(Return(<<>>, Num(Len(records)), WriteBlock(rows, row, records, Len(records[1]))),
                   HeaderAfterSetValues(row, records, Len(records[1])))

selectByPk(pkColumnName, pkValue) ==
    IF ~KnownColumn(pkColumnName) THEN Throw("InvalidColumn", rows)
    ELSE
      LET index == getIndexByColumnName_(pkColumnName)
          data  == getDataset_
          found == MatchingIndices(data, index, pkValue)
      IN  IF found = {} THEN Return(<<>>, Undefined, rows)
          ELSE Return(convertRecordToObj_(<<data[Min(found) + 1]>>), Undefined, rows)

selectByColumn(columnName, value) ==
    IF ~KnownColumn(columnName) THEN Throw("InvalidColumn", rows)
    ELSE
      LET index   == getIndexByColumnName_(columnName)
          data    == getDataset_
          records == RowsAt(data, MatchingIndices(data, index, value))
      IN  IF Len(records) = 0 THEN Return(<<>>, Undefined, rows)
          ELSE Return(convertRecordToObj_(records), Undefined, rows)

selectByColumns(criteria) ==
    LET data == getDataset_
    IN  IF \E i \in 1..Len(data) : RowEval(data[i], criteria) = "throw"
        THEN Throw("InvalidColumn", rows)
        ELSE
          LET records == RowsAt(data, {i \in 0..(Len(data) - 1) : RowEval(data[i + 1], criteria) = "match"})
          IN  IF Len(records) = 0 THEN Return(<<>>, Undefined, rows)
              ELSE Return(convertRecordToObj_(records), Undefined, rows)

selectAll == Return(convertRecordToObj_(getDataset_), Undefined, rows)

\* A sort that is applied to the sheet's range instead of the records: the
\* data rows are left in reverse order.
Sorted_SortsSheet(selected, sortBy) ==
    IF selected.err # "" THEN selected
    ELSE IF Len(selected.res) = 0 THEN Return(<<>>, Undefined, rows)
    ELSE Return(selected.res, Undefined,
                Trim([i \in 1..Len(rows) |-> rows[Len(rows) + 1 - i]]))

\* The common tail of the ...Sorted operations: the select's result, sorted
\* and converted once more.
Sorted(selected, sortBy) ==
    IF selected.err # "" THEN selected
    ELSE IF Len(selected.res) = 0 THEN Return(<<>>, Undefined, rows)
    ELSE LET sortedRecords == sortData_(selected.res, sortBy)
         IN  IF sortedRecords.err # "" THEN Throw(sortedRecords.err, rows)
             ELSE Return(convertRecordToObj_OfObjects(sortedRecords.recs), Undefined, rows)

selectByPkSorted(pkColumnName, pkValue, sortBy) == Sorted(selectByPk(pkColumnName, pkValue), sortBy)

selectByColumnSorted(columnName, value, sortBy) == Sorted(selectByColumn(columnName, value), sortBy)

selectByColumnsSorted(criteria, sortBy) == Sorted(selectByColumns(criteria), sortBy)

selectAllSorted(sortBy) == Sorted(selectAll, sortBy)

\* selectMax without the test for an empty data set: data[0] is undefined and
\* reading its element throws.
selectMax_NoEmptyCase(columnName) ==
    IF columnName = "" THEN Throw("InvalidArgument", rows)
    ELSE IF ~KnownColumn(columnName) THEN Throw("InvalidColumn", rows)
    ELSE IF Len(getDataset_) = 0 THEN Throw("TypeError", rows)
    ELSE Return(<<>>, ElemGet(getDataset_[1], getIndexByColumnName_(columnName)), rows)

\* data.reduce((currentMax, row) => ..., data[0][index]): the accumulator starts
\* as the first row's cell, whatever it holds, and Math.max is applied to it
\* for every cell that is a number.
selectMax(columnName) ==
    IF columnName = "" THEN Throw("InvalidArgument", rows)
    ELSE IF ~KnownColumn(columnName) THEN Throw("InvalidColumn", rows)
    ELSE
      LET index == getIndexByColumnName_(columnName)
          data  == getDataset_
      IN  IF Len(data) = 0 THEN Return(<<>>, Null, rows)
          ELSE
            LET initialMax == ElemGet(data[1], index)
                RECURSIVE Reduce(_, _)
                Reduce(currentMax, k) ==
                    IF k > Len(data) THEN currentMax
                    ELSE LET value == ElemGet(data[k], index)
                         IN  Reduce(IF IsNumber(value) THEN MathMax(currentMax, value)
                                    ELSE currentMax,
                                    k + 1)
            IN  Return(<<>>, Reduce(initialMax, 1), rows)

\* selectByPkAndIncrement without the empty-cell case: an empty cell is not a
\* number and the call throws.
selectByPkAndIncrement_NoEmptyCase(pkColumnName, pkValue, columnName, incrementArg) ==
    LET increment == IF incrementArg = Undefined THEN Num(1) ELSE incrementArg
    IN  IF pkColumnName = "" THEN Throw("InvalidArgument", rows)
        ELSE IF columnName = "" THEN Throw("InvalidArgument", rows)
        ELSE IF ~IsNumber(increment) \/ IsNaN(increment) THEN Throw("InvalidArgument", rows)
        ELSE IF ~KnownColumn(pkColumnName) THEN Throw("InvalidColumn", rows)
        ELSE IF ~KnownColumn(columnName) THEN Throw("InvalidColumn", rows)
        ELSE
          LET pkColumnIndex == getIndexByColumnName_(pkColumnName)
              columnIndex   == getIndexByColumnName_(columnName)
              data          == getDataset_
              found         == MatchingIndices(data, pkColumnIndex, pkValue)
          IN  IF found = {} THEN Return(<<>>, Null, rows)
              ELSE
                LET recordIndex == Min(found)
                    value       == ElemGet(data[recordIndex + 1], columnIndex)
                IN  IF ~IsNumber(value) THEN Throw("TypeMismatch", rows)
                    ELSE LET newValue == Num(value.n + increment.n)
                         IN  Wrote(Return(<<>>, newValue,
                                          setValue(rows, recordIndex + ROW_INDEX_CONVERT_NUM,
                                                   columnIndex + 1, newValue)),
                                   HeaderAfterSetValue(recordIndex + ROW_INDEX_CONVERT_NUM,
                                                       columnIndex + 1, newValue))

\* selectByPkAndIncrement that returns the new value and does not write it.
selectByPkAndIncrement_NoWrite(pkColumnName, pkValue, columnName, incrementArg) ==
    LET increment == IF incrementArg = Undefined THEN Num(1) ELSE incrementArg
    IN  IF pkColumnName = "" THEN Throw("InvalidArgument", rows)
        ELSE IF columnName = "" THEN Throw("InvalidArgument", rows)
        ELSE IF ~IsNumber(increment) \/ IsNaN(increment) THEN Throw("InvalidArgument", rows)
        ELSE IF ~KnownColumn(pkColumnName) THEN Throw("InvalidColumn", rows)
        ELSE IF ~KnownColumn(columnName) THEN Throw("InvalidColumn", rows)
        ELSE
          LET pkColumnIndex == getIndexByColumnName_(pkColumnName)
              columnIndex   == getIndexByColumnName_(columnName)
              data          == getDataset_
              found         == MatchingIndices(data, pkColumnIndex, pkValue)
          IN  IF found = {} THEN Return(<<>>, Null, rows)
              ELSE
                LET recordIndex == Min(found)
                    cell        == ElemGet(data[recordIndex + 1], columnIndex)
                    value       == IF cell = Empty \/ cell = Null THEN Num(0) ELSE cell
                IN  IF ~IsNumber(value) THEN Throw("TypeMismatch", rows)
                    ELSE Return(<<>>, Num(value.n + increment.n), rows)

\* increment is undefined when the caller omits it: the default applies.
selectByPkAndIncrement(pkColumnName, pkValue, columnName, incrementArg) ==
    LET increment == IF incrementArg = Undefined THEN Num(1) ELSE incrementArg
    IN  IF pkColumnName = "" THEN Throw("InvalidArgument", rows)
        ELSE IF columnName = "" THEN Throw("InvalidArgument", rows)
        ELSE IF ~IsNumber(increment) \/ IsNaN(increment) THEN Throw("InvalidArgument", rows)
        ELSE IF ~KnownColumn(pkColumnName) THEN Throw("InvalidColumn", rows)
        ELSE IF ~KnownColumn(columnName) THEN Throw("InvalidColumn", rows)
        ELSE
          LET pkColumnIndex == getIndexByColumnName_(pkColumnName)
              columnIndex   == getIndexByColumnName_(columnName)
              data          == getDataset_
              found         == MatchingIndices(data, pkColumnIndex, pkValue)
          IN  IF found = {} THEN Return(<<>>, Null, rows)
              ELSE
                LET recordIndex == Min(found)
                    cell        == ElemGet(data[recordIndex + 1], columnIndex)
                    value       == IF cell = Empty \/ cell = Null THEN Num(0) ELSE cell
                IN  IF ~IsNumber(value) THEN Throw("TypeMismatch", rows)
                    ELSE LET newValue == Num(value.n + increment.n)
                         IN  Wrote(Return(<<>>, newValue,
                                          setValue(rows, recordIndex + ROW_INDEX_CONVERT_NUM,
                                                   columnIndex + 1, newValue)),
                                   HeaderAfterSetValue(recordIndex + ROW_INDEX_CONVERT_NUM,
                                                       columnIndex + 1, newValue))

\* selectByPkAndIncrement called with names of any type: typeof name !== "string"
\* throws; a string name goes on as above.
selectByPkAndIncrementOfAny(pkColumnName, pkValue, columnName, incrementArg) ==
    IF pkColumnName.t # "string" THEN Throw("InvalidArgument", rows)
    ELSE IF columnName.t # "string" THEN Throw("InvalidArgument", rows)
    ELSE selectByPkAndIncrement(pkColumnName.s, pkValue, columnName.s, incrementArg)

updateByPk(pkColumnName, pkValue, rowValues) ==
    IF ~KnownColumn(pkColumnName) THEN Throw("InvalidColumn", rows)
    ELSE
      LET pkColumnIndex == getIndexByColumnName_(pkColumnName)
          data          == getDataset_
          found         == MatchingIndices(data, pkColumnIndex, pkValue)
      IN  IF found = {} THEN Return(<<>>, Undefined, rows)
          ELSE
            LET recordIndex == Min(found)
                record      == data[recordIndex + 1]
                newRecord   == createRecord_(rowValues, getColumnIndexMap_)
            IN  IF ~FitsRange(<<newRecord>>, Len(record)) THEN Throw("StoreError", rows)
                ELSE Wrote(Return(convertRecordToObj_(<<newRecord>>), Undefined,
                                  WriteBlock(rows, recordIndex + ROW_INDEX_CONVERT_NUM,
                                             <<newRecord>>, Len(record))),
                           HeaderAfterSetValues(recordIndex + ROW_INDEX_CONVERT_NUM,
                                                <<newRecord>>, Len(record)))

\* updateItemByPk that takes the last matching row instead of the first.
updateItemByPk_LastMatch(pkColumnName, pkValue, columnName, value) ==
    IF ~KnownColumn(pkColumnName) THEN Throw("InvalidColumn", rows)
    ELSE
      LET pkColumnIndex == getIndexByColumnName_(pkColumnName)
          data          == getDataset_
          found         == MatchingIndices(data, pkColumnIndex, pkValue)
      IN  IF found = {} THEN Return(<<>>, Undefined, rows)
          ELSE IF ~KnownColumn(columnName) THEN Throw("InvalidColumn", rows)
          ELSE
            LET recordIndex == Max(found)
                record      == ElemSet(data[recordIndex + 1],
                                       getIndexByColumnName_(columnName), value)
            IN  Wrote(Return(convertRecordToObj_(<<record>>), Undefined,
                             WriteBlock(rows, recordIndex + ROW_INDEX_CONVERT_NUM,
                                        <<record>>, Len(record))),
                      HeaderAfterSetValues(recordIndex + ROW_INDEX_CONVERT_NUM,
                                           <<record>>, Len(record)))

updateItemByPk(pkColumnName, pkValue, columnName, value) ==
    IF ~KnownColumn(pkColumnName) THEN Throw("InvalidColumn", rows)
    ELSE
      LET pkColumnIndex == getIndexByColumnName_(pkColumnName)
          data          == getDataset_
          found         == MatchingIndices(data, pkColumnIndex, pkValue)
      IN  IF found = {} THEN Return(<<>>, Undefined, rows)
          ELSE IF ~KnownColumn(columnName) THEN Throw("InvalidColumn", rows)
          ELSE
            LET recordIndex == Min(found)
                record      == ElemSet(data[recordIndex + 1],
                                       getIndexByColumnName_(columnName), value)
            IN  Wrote(Return(convertRecordToObj_(<<record>>), Undefined,
                             WriteBlock(rows, recordIndex + ROW_INDEX_CONVERT_NUM,
                                        <<record>>, Len(record))),
                      HeaderAfterSetValues(recordIndex + ROW_INDEX_CONVERT_NUM,
                                           <<record>>, Len(record)))

\* if (newRecords) return []: an array, empty or not, is truthy.
IsTruthyArray(arr) == TRUE

\* The loop shared by updateItemByColumns and updateItemsByColumns: data.map
\* visits the rows read at the start in order, patches each matching row with
\* the column -> value pairs of columnValues (a name the map does not hold
\* patches nothing) and rewrites it.
UpdateRows(criteria, columnValues) ==
    LET data == getDataset_
        Patch(record) ==
            [c \in 1..Len(record) |->
                IF \E k \in DOMAIN columnValues : MapGet(getColumnIndexMap_, k) = c - 1
                THEN columnValues[CHOOSE k \in DOMAIN columnValues :
                                     MapGet(getColumnIndexMap_, k) = c - 1]
                ELSE record[c]]
        RECURSIVE Visit(_, _, _, _)
        Visit(index, sheet, h, newRecords) ==
            IF index >= Len(data)
            THEN [err |-> "", rows |-> sheet, header |-> h, recs |-> newRecords]
            ELSE LET flag == RowEval(data[index + 1], criteria)
                 IN  IF flag = "throw"
                     THEN [err |-> "InvalidColumn", rows |-> sheet, header |-> h,
                           recs |-> newRecords]
                     ELSE IF flag = "match"
                     THEN LET record == Patch(data[index + 1])
                          IN  Visit(index + 1,
                                    WriteBlock(sheet, index + ROW_INDEX_CONVERT_NUM,
                                               <<record>>, Len(record)),
                                    IF index + ROW_INDEX_CONVERT_NUM = 1
                                    THEN HeaderAfterSetValues(index + ROW_INDEX_CONVERT_NUM,
                                                              <<record>>, Len(record))
                                    ELSE h,
                                    Append(newRecords, record))
                     ELSE Visit(index + 1, sheet, h, newRecords)
    IN  Visit(0, rows, header, <<>>)

updateItemByColumns(criteria, columnName, value) ==
    LET done == UpdateRows(criteria, [k \in {columnName} |-> value])
    IN  IF done.err # "" THEN Wrote(Throw(done.err, done.rows), done.header)
        ELSE IF IsTruthyArray(done.recs)
        THEN Wrote(Return(<<>>, Undefined, done.rows), done.header)
        ELSE Wrote(Return(convertRecordToObj_(done.recs), Undefined, done.rows), done.header)

updateItemsByColumns(criteria, columnValues) ==
    LET done == UpdateRows(criteria, columnValues)
    IN  IF done.err # "" THEN Wrote(Throw(done.err, done.rows), done.header)
        ELSE IF IsTruthyArray(done.recs)
        THEN Wrote(Return(<<>>, Undefined, done.rows), done.header)
        ELSE Wrote(Return(convertRecordToObj_(done.recs), Undefined, done.rows), done.header)

\* sheet.getRange(cellAddress).getRowIndex() and .getColumn() for the
\* addresses of the model, in A1 notation.
getRowIndex(cellAddress) == CASE cellAddress = "B2" -> 2 [] cellAddress = "A3" -> 3
getColumn(cellAddress)   == CASE cellAddress = "B2" -> 2 [] cellAddress = "A3" -> 1

\* What Sheets.Spreadsheets.batchUpdate does with n requests: it throws, or
\* it applies them and answers with a number of replies.
StoreAnswers(n) ==
    {[thrown |-> TRUE, replies |-> 0]} \cup
        {[thrown |-> FALSE, replies |-> k] : k \in {n, n - 1} \cap Nat}

\* updateCells without the try/catch around batchUpdate.
updateCells_NoCatch(cellUpdates, answer) ==
    IF answer.thrown THEN Throw("StoreError", rows)
    ELSE Return(<<>>, Bool(answer.replies = Len(cellUpdates)), rows)

\* updateCells(cellUpdates) for an object of address -> string entries: one
\* request per entry, sent in one batchUpdate; the store applies all of them
\* or throws, and a throw is caught and answered with false.
updateCells(cellUpdates, answer) ==
    LET requests == [i \in 1..Len(cellUpdates) |->
                        [row         |-> getRowIndex(cellUpdates[i].k),
                         column      |-> getColumn(cellUpdates[i].k),
                         stringValue |-> cellUpdates[i].v]]
        RECURSIVE Apply(_, _)
        Apply(rs, i) ==
            IF i > Len(requests) THEN rs
            ELSE Apply(setValue(rs, requests[i].row, requests[i].column,
                                requests[i].stringValue), i + 1)
    IN  IF answer.thrown THEN Return(<<>>, Bool(FALSE), rows)
        ELSE Return(<<>>, Bool(answer.replies = Len(requests)), Apply(rows, 1))

-----------------------------------------------------------------------------
(* SpreadsheetDB: one SheetTable per sheet name, made at the first call     *)
(* that names the sheet and kept in sheetMap.  The spreadsheet holds the    *)
(* sheet under study, "Orders", and a second sheet, "Items".                *)

MainSheet == "Orders"
ItemsHeader == <<"sku", "qty">>

\* spreadsheet.getSheetByName(sheetName) finds a sheet.
SheetExists(sheetName) == sheetName \in sheets

\* sheet.getRange(1, 1, 1, sheet.getLastColumn()).getValues()[0]
HeaderOf(sheetName) == IF sheetName = MainSheet THEN header ELSE ItemsHeader

\* new SheetTable(spreadsheet, sheetName), the id-th object of its class:
\* the header row is read once and the column index map is built from it.
NewSheetTable(sheetName, id) ==
    IF ~SheetExists(sheetName) THEN [err |-> "NotFound", table |-> <<>>]
    ELSE [err   |-> "",
          table |-> [id |-> id, sheetName |-> sheetName, headers |-> HeaderOf(sheetName),
                     columnIndexMap |-> createColumnIndexMap_(HeaderOf(sheetName))]]

\* A reference to a SheetTable object, as a value a call returns.
TableRef(table) == [t |-> "SheetTable", n |-> table.id, s |-> table.sheetName]

\* sheetMap is an object literal: a name no sheet was stored under still reads
\* what Object.prototype defines for it.
ObjectPrototype == {"constructor"}
Inherited(sheetName) == [t |-> "function", n |-> 0, s |-> sheetName]

\* getSheetTable_ that makes a new SheetTable at every call.
getSheetTable_NoCache(sheetName) ==
    LET made == NewSheetTable(sheetName, Cardinality(DOMAIN sheetMap) + 1)
    IN  IF made.err # "" THEN [err |-> made.err, val |-> Undefined, sheetMap |-> sheetMap]
        ELSE [err |-> "", val |-> TableRef(made.table),
              sheetMap |-> [n \in DOMAIN sheetMap \cup {sheetName} |->
                               IF n = sheetName THEN made.table ELSE sheetMap[n]]]

\* getSheetTable_ that stores an entry under the name before the table is
\* made, so that a failed construction leaves the entry behind.
getSheetTable_StoresFirst(sheetName) ==
    IF sheetName \in DOMAIN sheetMap
    THEN [err |-> "", val |-> TableRef(sheetMap[sheetName]), sheetMap |-> sheetMap]
    ELSE IF sheetName \in ObjectPrototype
    THEN [err |-> "", val |-> Inherited(sheetName), sheetMap |-> sheetMap]
    ELSE
      LET id    == Cardinality(DOMAIN sheetMap) + 1
          made  == NewSheetTable(sheetName, id)
          entry == IF made.err # ""
                   THEN [id |-> id, sheetName |-> sheetName, headers |-> <<>>,
                         columnIndexMap |-> <<>>]
                   ELSE made.table
      IN  [err |-> made.err,
           val |-> IF made.err # "" THEN Undefined ELSE TableRef(made.table),
           sheetMap |-> [n \in DOMAIN sheetMap \cup {sheetName} |->
                            IF n = sheetName THEN entry ELSE sheetMap[n]]]

\* if (this.sheetMap[sheetName]) return it; else make the table and store it.
getSheetTable_(sheetName) ==
    IF sheetName \in DOMAIN sheetMap
    THEN [err |-> "", val |-> TableRef(sheetMap[sheetName]), sheetMap |-> sheetMap]
    ELSE IF sheetName \in ObjectPrototype
    THEN [err |-> "", val |-> Inherited(sheetName), sheetMap |-> sheetMap]
    ELSE
      LET made == NewSheetTable(sheetName, Cardinality(DOMAIN sheetMap) + 1)
      IN  IF made.err # "" THEN [err |-> made.err, val |-> Undefined, sheetMap |-> sheetMap]
          ELSE [err |-> "", val |-> TableRef(made.table),
                sheetMap |-> [n \in DOMAIN sheetMap \cup {sheetName} |->
                                 IF n = sheetName THEN made.table ELSE sheetMap[n]]]

-----------------------------------------------------------------------------
(* The sheets a session starts from and the arguments its calls take.       *)

Row3(a, b, c) == <<a, b, c>>

Tables ==
    { \* unique header; ids 3, 1, 2 out of order, a repeated id, a numeric,
      \* an empty, a textual and a boolean cell in column n
      [header |-> <<"id", "n", "s">>,
       rows   |-> << Row3(Num(3), Num(5), Str("a")),
                     Row3(Num(1), Empty, Str("b")),
                     Row3(Num(2), Str("a"), Empty),
                     Row3(Num(1), Bool(TRUE), Str("a")) >>],
      \* a header only
      [header |-> <<"id", "n", "s">>, rows |-> <<>>],
      \* the name id heads two columns
      [header |-> <<"id", "n", "id">>,
       rows   |-> << Row3(Num(1), Num(5), Num(2)),
                     Row3(Num(2), Empty, Num(1)) >>],
      \* an empty first cell in column n above a negative number, and an
      \* empty id cell
      [header |-> <<"id", "n", "s">>,
       rows   |-> << Row3(Num(1), Empty, Str("a")),
                     Row3(Empty, Num(0 - 3), Str("b")) >>] }

\* Column names: two of every header and one of none.
Cols   == {"id", "n", "zz"}
PkCols == {"id", "zz"}
\* Key values: the number of a row, its decimal string, the number of no row.
PkVals == {Num(1), Str("3"), Num(4)}
\* Values written to a cell.
Vals   == {Num(7), Empty}
\* Increments: omitted, and five.
Incs   == {Undefined, Num(5)}

Obj1(k1, v1) == [k \in {k1} |-> v1]
Obj2(k1, v1, k2, v2) == [k \in {k1, k2} |-> IF k = k1 THEN v1 ELSE v2]
Obj3(k1, v1, k2, v2, k3, v3) ==
    [k \in {k1, k2, k3} |-> IF k = k1 THEN v1 ELSE IF k = k2 THEN v2 ELSE v3]

Objs ==
    { EmptyObj,
      Obj1("id", Num(7)),
      Obj1("id", Empty),
      Obj2("n", Num(7), "zz", Str("a")),
      Obj3("id", Num(4), "n", Num(5), "s", Str("b")) }

ObjSeqs ==
    { <<>>,
      <<Obj1("id", Num(7))>>,
      <<Obj3("id", Num(4), "n", Num(5), "s", Str("b")), Obj2("n", Num(7), "zz", Str("a"))>> }

Entry(k, v) == [k |-> k, v |-> v]

Criterias ==
    { <<>>,
      <<Entry("id", Str("1"))>>,
      <<Entry("id", Num(1)), Entry("s", Str("b"))>>,
      <<Entry("n", Num(5)), Entry("zz", Num(1))>>,
      <<Entry("s", Str("a"))>> }

SortBys == {NoSort, SortBy("id", "ASC"), SortBy("id", "DESC"), SortBy("zz", "ASC")}

\* The arguments of the calls, one tuple per call.
PkArgs == (PkCols \X PkVals) \cup {<<"id", Null>>}
ColumnArgs ==
    {<<"id", Num(1)>>, <<"id", Str("1")>>, <<"id", Num(7)>>, <<"id", Str("7")>>,
     <<"s", Str("a")>>, <<"n", Num(4)>>, <<"n", Null>>, <<"zz", Num(1)>>}
SelectMaxArgs == {"n", "id", "zz", ""}
SortedPkArgs == {<<"id", Num(1)>>, <<"zz", Num(1)>>}
SortedColumnArgs == {<<"s", Str("a")>>, <<"n", Num(4)>>, <<"zz", Num(1)>>}
SortedCriterias ==
    {<<>>, <<Entry("s", Str("a"))>>, <<Entry("n", Num(5)), Entry("zz", Num(1))>>}
IncrementArgs ==
    ({"id"} \X {Num(1), Str("3"), Num(2), Num(4)} \X {"n"} \X Incs)
        \cup {<<"zz", Num(1), "n", Undefined>>, <<"id", Num(1), "zz", Undefined>>,
              <<"id", Num(1), "id", Num(5)>>,
              <<"", Num(1), "n", Undefined>>, <<"id", Num(1), "", Undefined>>,
              <<"id", Num(1), "n", NaN>>, <<"id", Num(1), "n", Str("5")>>,
              <<"id", Num(1), "n", Null>>}
\* Calls whose pk or target column name is not a string.
IncrementOfAnyArgs ==
    {<<Num(5), Num(1), Str("n"), Undefined>>, <<Str("id"), Num(1), Null, Num(5)>>}
\* The increments another execution of the script makes.
OtherIncrementArgs == {<<"id", Num(1), "n", Num(5)>>, <<"id", Str("3"), "n", Undefined>>}
\* The objects updateCells is called with, as address -> value entries.
CellUpdatesArgs ==
    { <<Entry("B2", Str("q"))>>, <<Entry("B2", Str("q")), Entry("A3", Str("b"))>> }
UpdateByPkArgs == ({"id"} \X PkVals \X Objs) \cup {<<"zz", Num(1), EmptyObj>>}
UpdateItemByPkArgs ==
    ({"id"} \X {Num(1), Str("3")} \X Cols \X Vals) \cup
        {<<"zz", Num(1), "n", Num(7)>>, <<"id", Num(4), "n", Num(7)>>, <<"id", Num(4), "zz", Num(7)>>}
UpdateItemByColumnsArgs ==
    ((Criterias \ {<<Entry("id", Str("1"))>>}) \X {"n", "zz"} \X Vals)
UpdateItemsByColumnsArgs ==
    ((Criterias \ {<<Entry("id", Str("1"))>>}) \X
        {EmptyObj, Obj1("id", Empty), Obj2("n", Num(7), "zz", Str("a"))})

\* Sheet names: two sheets of the spreadsheet, a name of no sheet, a name
\* Object.prototype defines.
SheetNames == {"Orders", "Items", "Missing", "constructor"}
\* The header rows another user gives the sheet: columns renamed and swapped.
OtherHeaders == {<<"n", "id", "s">>}
\* The values another user writes to a cell.
OtherVals == {Num(9)}

NoArgs ==
    [pkColumnName |-> "", pkValue |-> Undefined, columnName |-> "", value |-> Undefined,
     rowValues |-> EmptyObj, rowValuesArray |-> <<>>, criteria |-> <<>>,
     columnValues |-> EmptyObj, sortBy |-> NoSort, increment |-> Undefined,
     sheetName |-> "", nameTypes |-> <<"string", "string">>, cellUpdates |-> <<>>,
     answer |-> [thrown |-> FALSE, replies |-> 0]]

\* No selectByPkAndIncrement call is between its read and its write.
NoPending ==
    [active |-> FALSE, op |-> "", args |-> NoArgs, recordIndex |-> 0, columnIndex |-> 0,
     newValue |-> Undefined, data |-> <<>>]

-----------------------------------------------------------------------------
(* The state machine: a table is constructed over a sheet, then called.     *)

Init ==
    \E t \in Tables :
        /\ header = t.header
        /\ rows = t.rows
        /\ columnIndexMap = createColumnIndexMap_(t.header)
        /\ last = [op |-> "constructor", args |-> NoArgs, pre |-> t.rows,
                   preHeader |-> t.header, err |-> "", res |-> <<>>, val |-> Undefined]
        /\ nops = 0
        /\ sheetMap = <<>>
        /\ pending = NoPending
        /\ nedits = 0
        /\ pendingOther = NoPending
        /\ sheets = {"Orders", "Items"}

\* One call: the sheet takes the rows and the header row the call leaves, the
\* call is recorded with the data rows and the header row it found.
Call(op, args, out) ==
    /\ nops < MaxOps
    /\ nops' = nops + 1
    /\ rows' = out.rows
    /\ header' = out.header
    /\ last' = [op |-> op, args |-> args, pre |-> rows, preHeader |-> header,
                err |-> out.err, res |-> out.res, val |-> out.val]
    /\ UNCHANGED <<columnIndexMap, sheetMap, pending, nedits, pendingOther, sheets>>

CallInsert ==
    \E o \in Objs : Call("insert", [NoArgs EXCEPT !.rowValues = o], insert(o))

CallInsertAll ==
    \E os \in ObjSeqs : Call("insertAll", [NoArgs EXCEPT !.rowValuesArray = os], insertAll(os))

CallSelectByPk ==
    \E a \in PkArgs :
        Call("selectByPk", [NoArgs EXCEPT !.pkColumnName = a[1], !.pkValue = a[2]],
             selectByPk(a[1], a[2]))

CallSelectByPkSorted ==
    \E a \in SortedPkArgs, sb \in SortBys :
        Call("selectByPkSorted",
             [NoArgs EXCEPT !.pkColumnName = a[1], !.pkValue = a[2], !.sortBy = sb],
             selectByPkSorted(a[1], a[2], sb))

CallSelectByColumn ==
    \E a \in ColumnArgs :
        Call("selectByColumn", [NoArgs EXCEPT !.columnName = a[1], !.value = a[2]],
             selectByColumn(a[1], a[2]))

CallSelectByColumnSorted ==
    \E a \in SortedColumnArgs, sb \in SortBys :
        Call("selectByColumnSorted",
             [NoArgs EXCEPT !.columnName = a[1], !.value = a[2], !.sortBy = sb],
             selectByColumnSorted(a[1], a[2], sb))

CallSelectByColumns ==
    \E cr \in Criterias :
        Call("selectByColumns", [NoArgs EXCEPT !.criteria = cr], selectByColumns(cr))

CallSelectByColumnsSorted ==
    \E cr \in SortedCriterias, sb \in SortBys :
        Call("selectByColumnsSorted", [NoArgs EXCEPT !.criteria = cr, !.sortBy = sb],
             selectByColumnsSorted(cr, sb))

CallSelectAll == Call("selectAll", NoArgs, selectAll)

CallSelectAllSorted ==
    \E sb \in SortBys :
        Call("selectAllSorted", [NoArgs EXCEPT !.sortBy = sb], selectAllSorted(sb))

CallSelectMax ==
    \E c \in SelectMaxArgs :
        Call("selectMax", [NoArgs EXCEPT !.columnName = c], selectMax(c))

CallSelectByPkAndIncrement ==
    \E a \in IncrementArgs :
        Call("selectByPkAndIncrement",
             [NoArgs EXCEPT !.pkColumnName = a[1], !.pkValue = a[2], !.columnName = a[3],
                            !.increment = a[4]],
             selectByPkAndIncrement(a[1], a[2], a[3], a[4]))

CallSelectByPkAndIncrementOfAny ==
    \E a \in IncrementOfAnyArgs :
        Call("selectByPkAndIncrement",
             [NoArgs EXCEPT !.pkColumnName = JsString(a[1]), !.pkValue = a[2],
                            !.columnName = JsString(a[3]), !.increment = a[4],
                            !.nameTypes = <<a[1].t, a[3].t>>],
             selectByPkAndIncrementOfAny(a[1], a[2], a[3], a[4]))

CallUpdateCells ==
    \E cu \in CellUpdatesArgs :
        \E answer \in StoreAnswers(Len(cu)) :
            Call("updateCells", [NoArgs EXCEPT !.cellUpdates = cu, !.answer = answer],
                 updateCells(cu, answer))

CallUpdateByPk ==
    \E a \in UpdateByPkArgs :
        Call("updateByPk",
             [NoArgs EXCEPT !.pkColumnName = a[1], !.pkValue = a[2], !.rowValues = a[3]],
             updateByPk(a[1], a[2], a[3]))

CallUpdateItemByPk ==
    \E a \in UpdateItemByPkArgs :
        Call("updateItemByPk",
             [NoArgs EXCEPT !.pkColumnName = a[1], !.pkValue = a[2], !.columnName = a[3],
                            !.value = a[4]],
             updateItemByPk(a[1], a[2], a[3], a[4]))

CallUpdateItemByColumns ==
    \E a \in UpdateItemByColumnsArgs :
        Call("updateItemByColumns",
             [NoArgs EXCEPT !.criteria = a[1], !.columnName = a[2], !.value = a[3]],
             updateItemByColumns(a[1], a[2], a[3]))

CallUpdateItemsByColumns ==
    \E a \in UpdateItemsByColumnsArgs :
        Call("updateItemsByColumns",
             [NoArgs EXCEPT !.criteria = a[1], !.columnValues = a[2]],
             updateItemsByColumns(a[1], a[2]))

Next ==
    \/ CallInsert
    \/ CallInsertAll
    \/ CallSelectByPk
    \/ CallSelectByPkSorted
    \/ CallSelectByColumn
    \/ CallSelectByColumnSorted
    \/ CallSelectByColumns
    \/ CallSelectByColumnsSorted
    \/ CallSelectAll
    \/ CallSelectAllSorted
    \/ CallSelectMax
    \/ CallSelectByPkAndIncrement
    \/ CallSelectByPkAndIncrementOfAny
    \/ CallUpdateCells
    \/ CallUpdateByPk
    \/ CallUpdateItemByPk
    \/ CallUpdateItemByColumns
    \/ CallUpdateItemsByColumns

Spec == Init /\ [][Next]_vars

-----------------------------------------------------------------------------
(* The shared spreadsheet: the script reaches its tables through a          *)
(* SpreadsheetDB, and other users edit the sheet while the script runs.     *)
(* A call of the script runs to its end before the next one starts; the     *)
(* edits of other users fall between calls and between a call's read of     *)
(* the sheet and its write.                                                  *)

\* new SpreadsheetDB(spreadsheetId): sheetMap = {} and no table yet.
InitShared ==
    \E t \in Tables :
        /\ header = t.header
        /\ rows = t.rows
        /\ columnIndexMap = <<>>
        /\ last = [op |-> "SpreadsheetDB", args |-> NoArgs, pre |-> t.rows,
                   preHeader |-> t.header, err |-> "", res |-> <<>>, val |-> Undefined]
        /\ nops = 0
        /\ sheetMap = <<>>
        /\ pending = NoPending
        /\ nedits = 0
        /\ pendingOther = NoPending
        /\ sheets = {"Orders", "Items"}

\* The first step of every method of SpreadsheetDB: the table of the sheet.
CallGetSheetTable ==
    \E sheetName \in SheetNames :
        LET out == getSheetTable_(sheetName)
        IN  /\ nops < MaxOps
            /\ ~pending.active
            /\ nops' = nops + 1
            /\ sheetMap' = out.sheetMap
            /\ columnIndexMap' = IF MainSheet \in DOMAIN out.sheetMap
                                 THEN out.sheetMap[MainSheet].columnIndexMap
                                 ELSE columnIndexMap
            /\ last' = [op |-> "getSheetTable_", args |-> [NoArgs EXCEPT !.sheetName = sheetName],
                        pre |-> rows, preHeader |-> header,
                        err |-> out.err, res |-> <<>>, val |-> out.val]
            /\ UNCHANGED <<header, rows, pending, nedits, pendingOther, sheets>>

\* The second step of a method of SpreadsheetDB: the call on the table.
OnTable(TableCall) ==
    /\ MainSheet \in DOMAIN sheetMap
    /\ ~pending.active
    /\ TableCall

\* The write of selectByPkAndIncrement as an addition to what the cell holds
\* at the time of the write.
writeNewValue_AddsToCell(rs, p) ==
    LET read == Cell(p.data, p.recordIndex, p.columnIndex)
        now  == Cell(rs, p.recordIndex, p.columnIndex)
    IN  setValue(rs, p.recordIndex + ROW_INDEX_CONVERT_NUM, p.columnIndex + 1,
                 Num((IF now = Empty THEN 0 ELSE now.n)
                        + (p.newValue.n - (IF read = Empty THEN 0 ELSE read.n))))

\* The write of selectByPkAndIncrement as a write of the whole row it read.
writeNewValue_WholeRow(rs, p) ==
    WriteBlock(rs, p.recordIndex + ROW_INDEX_CONVERT_NUM,
               <<ElemSet(p.data[p.recordIndex + 1], p.columnIndex, p.newValue)>>, Width)

\* getRange(row, column).setValue(newValue) of selectByPkAndIncrement.
writeNewValue(rs, p) ==
    setValue(rs, p.recordIndex + ROW_INDEX_CONVERT_NUM, p.columnIndex + 1, p.newValue)

\* selectByPkAndIncrement up to its write: a call that throws or finds no row
\* ends here, any other has read the sheet and computed the new value.
IncrementRead ==
    /\ MainSheet \in DOMAIN sheetMap
    /\ ~pending.active
    /\ nops < MaxOps
    /\ \E a \in IncrementArgs :
          LET args == [NoArgs EXCEPT !.pkColumnName = a[1], !.pkValue = a[2],
                                     !.columnName = a[3], !.increment = a[4]]
              out  == selectByPkAndIncrement(a[1], a[2], a[3], a[4])
          IN  IF out.err # "" \/ out.val = Null
              THEN Call("selectByPkAndIncrement", args, out)
              ELSE /\ pending' =
                        [active      |-> TRUE,
                         op          |-> "selectByPkAndIncrement",
                         args        |-> args,
                         recordIndex |-> Min(MatchingIndices(getDataset_,
                                                 getIndexByColumnName_(a[1]), a[2])),
                         columnIndex |-> getIndexByColumnName_(a[3]),
                         newValue    |-> out.val,
                         data        |-> getDataset_]
                   /\ UNCHANGED <<header, rows, columnIndexMap, last, nops, sheetMap, nedits,
                                 pendingOther, sheets>>

\* The write of selectByPkAndIncrement and its return.
IncrementWrite ==
    /\ pending.active
    /\ nops' = nops + 1
    /\ rows' = writeNewValue(rows, pending)
    /\ last' = [op |-> "selectByPkAndIncrement", args |-> pending.args, pre |-> rows,
                preHeader |-> header, err |-> "", res |-> <<>>, val |-> pending.newValue]
    /\ pending' = [pending EXCEPT !.active = FALSE]
    /\ UNCHANGED <<header, columnIndexMap, sheetMap, nedits, pendingOther, sheets>>

\* Another user replaces the header row.
OtherSetsHeader ==
    /\ nedits < MaxEdits
    /\ \E h \in OtherHeaders :
          /\ h # header
          /\ Len(h) = Len(header)
          /\ header' = h
    /\ nedits' = nedits + 1
    /\ UNCHANGED <<rows, columnIndexMap, last, nops, sheetMap, pending, pendingOther, sheets>>

\* Another user writes a cell of a data row.
OtherSetsValue ==
    /\ nedits < MaxEdits
    /\ \E i \in 1..Len(rows), c \in 1..Width, v \in OtherVals :
          /\ rows[i][c] # v
          /\ rows' = setValue(rows, i + 1, c, v)
    /\ nedits' = nedits + 1
    /\ UNCHANGED <<header, columnIndexMap, last, nops, sheetMap, pending, pendingOther, sheets>>

\* Another execution of the script, with a table made from the same header,
\* starts a selectByPkAndIncrement that finds a row and a number to add to.
OtherIncrementRead ==
    /\ MainSheet \in DOMAIN sheetMap
    /\ ~pendingOther.active
    /\ nedits < MaxEdits
    /\ \E a \in OtherIncrementArgs :
          LET out == selectByPkAndIncrement(a[1], a[2], a[3], a[4])
          IN  /\ out.err = ""
              /\ out.val # Null
              /\ pendingOther' =
                    [active      |-> TRUE,
                     op          |-> "selectByPkAndIncrement",
                     args        |-> [NoArgs EXCEPT !.pkColumnName = a[1], !.pkValue = a[2],
                                                    !.columnName = a[3], !.increment = a[4]],
                     recordIndex |-> Min(MatchingIndices(getDataset_,
                                             getIndexByColumnName_(a[1]), a[2])),
                     columnIndex |-> getIndexByColumnName_(a[3]),
                     newValue    |-> out.val,
                     data        |-> getDataset_]
    /\ UNCHANGED <<header, rows, columnIndexMap, last, nops, sheetMap, pending, nedits, sheets>>

\* The write of the other execution's call.
OtherIncrementWrite ==
    /\ pendingOther.active
    /\ rows' = writeNewValue(rows, pendingOther)
    /\ nedits' = nedits + 1
    /\ pendingOther' = [pendingOther EXCEPT !.active = FALSE]
    /\ UNCHANGED <<header, columnIndexMap, last, nops, sheetMap, pending, sheets>>

NextShared ==
    \/ CallGetSheetTable
    \/ OnTable(CallInsert)
    \/ OnTable(CallSelectAll)
    \/ IncrementRead
    \/ IncrementWrite
    \/ OtherSetsHeader
    \/ OtherSetsValue

SpecShared == InitShared /\ [][NextShared]_vars

\* Two executions of the script increment cells of the same sheet.
NextRace ==
    \/ CallGetSheetTable
    \/ IncrementRead
    \/ IncrementWrite
    \/ OtherIncrementRead
    \/ OtherIncrementWrite

SpecRace == InitShared /\ [][NextRace]_vars

-----------------------------------------------------------------------------
(* Updates by pk while other users insert, delete and edit rows.  An        *)
(* update reads the sheet with getDataset_(), finds its row, and writes     *)
(* with setValues; the edits of other users fall between the two.           *)

\* The updates by pk made in this specification: a row that is first of two
\* with its pk, a row below the first, rows no pk matches.
StaleUpdateItemByPkArgs ==
    {<<"id", Num(1), "n", Num(7)>>, <<"id", Num(2), "n", Num(7)>>, <<"id", Num(4), "n", Num(7)>>}
StaleUpdateByPkArgs ==
    {<<"id", Num(2), Obj1("id", Num(7))>>, <<"zz", Num(1), EmptyObj>>}
\* The row another user inserts.
OtherRows == {Row3(Num(9), Empty, Empty)}

\* The record an update by pk writes: the row it read with one element set
\* for updateItemByPk, the record made of rowValues for updateByPk.
recordToWrite(p) ==
    IF p.op = "updateItemByPk"
    THEN ElemSet(p.data[p.recordIndex + 1], p.columnIndex, p.args.value)
    ELSE createRecord_(p.args.rowValues, getColumnIndexMap_)

\* The write of an update that looks its row up again in the sheet as it is
\* at the time of the write.
writeRecord_FindsRowAgain(rs, p) ==
    LET found == MatchingIndices(rs, getIndexByColumnName_(p.args.pkColumnName), p.args.pkValue)
    IN  IF found = {} THEN rs
        ELSE WriteBlock(rs, Min(found) + ROW_INDEX_CONVERT_NUM, <<recordToWrite(p)>>,
                        Len(p.data[p.recordIndex + 1]))

\* getRange(recordIndex + ROW_INDEX_CONVERT_NUM, 1, 1, record.length).setValues([record])
writeRecord(rs, p) ==
    WriteBlock(rs, p.recordIndex + ROW_INDEX_CONVERT_NUM, <<recordToWrite(p)>>,
               Len(p.data[p.recordIndex + 1]))

\* An update by pk up to its write: a call that throws or finds no row ends
\* here, any other has read the sheet and found its row.
UpdateRead(op, args, out) ==
    /\ ~pending.active
    /\ nops < MaxOps
    /\ IF out.err # "" \/ Len(out.res) = 0
       THEN Call(op, args, out)
       ELSE /\ pending' =
                  [active      |-> TRUE,
                   op          |-> op,
                   args        |-> args,
                   recordIndex |-> Min(MatchingIndices(getDataset_,
                                           getIndexByColumnName_(args.pkColumnName),
                                           args.pkValue)),
                   columnIndex |-> IF op = "updateItemByPk"
                                   THEN getIndexByColumnName_(args.columnName) ELSE 0,
                   newValue    |-> Undefined,
                   data        |-> getDataset_]
            /\ UNCHANGED <<header, rows, columnIndexMap, last, nops, sheetMap, nedits,
                          pendingOther, sheets>>

UpdateItemByPkRead ==
    \E a \in StaleUpdateItemByPkArgs :
        UpdateRead("updateItemByPk",
                   [NoArgs EXCEPT !.pkColumnName = a[1], !.pkValue = a[2],
                                  !.columnName = a[3], !.value = a[4]],
                   updateItemByPk(a[1], a[2], a[3], a[4]))

UpdateByPkRead ==
    \E a \in StaleUpdateByPkArgs :
        UpdateRead("updateByPk",
                   [NoArgs EXCEPT !.pkColumnName = a[1], !.pkValue = a[2], !.rowValues = a[3]],
                   updateByPk(a[1], a[2], a[3]))

\* The write of the update and its return.
UpdateWrite ==
    /\ pending.active
    /\ pending.op \in {"updateItemByPk", "updateByPk"}
    /\ nops' = nops + 1
    /\ rows' = writeRecord(rows, pending)
    /\ last' = [op |-> pending.op, args |-> pending.args, pre |-> rows, preHeader |-> header,
                err |-> "", res |-> convertRecordToObj_(<<recordToWrite(pending)>>),
                val |-> Undefined]
    /\ pending' = [pending EXCEPT !.active = FALSE]
    /\ UNCHANGED <<header, columnIndexMap, sheetMap, nedits, pendingOther, sheets>>

\* Another user inserts a row above data row i + 1 (or after the last row).
OtherInsertsRow ==
    /\ nedits < MaxEdits
    /\ \E i \in 0..Len(rows), r \in OtherRows :
          rows' = SubSeq(rows, 1, i) \o <<r>> \o SubSeq(rows, i + 1, Len(rows))
    /\ nedits' = nedits + 1
    /\ UNCHANGED <<header, columnIndexMap, last, nops, sheetMap, pending, pendingOther, sheets>>

\* Another user deletes a data row.
OtherDeletesRow ==
    /\ nedits < MaxEdits
    /\ \E i \in 1..Len(rows) :
          rows' = Trim(SubSeq(rows, 1, i - 1) \o SubSeq(rows, i + 1, Len(rows)))
    /\ nedits' = nedits + 1
    /\ UNCHANGED <<header, columnIndexMap, last, nops, sheetMap, pending, pendingOther, sheets>>

NextStale ==
    \/ UpdateItemByPkRead
    \/ UpdateByPkRead
    \/ UpdateWrite
    \/ OtherInsertsRow
    \/ OtherDeletesRow
    \/ OtherSetsValue

SpecStale == Init /\ [][NextStale]_vars

-----------------------------------------------------------------------------
(* SpreadsheetDB: the methods callers use.  Each takes the sheet name       *)
(* first, gets the sheet's table from getSheetTable_ and calls the table's  *)
(* method.  The header row does not change in this specification, so the    *)
(* column index map the constructor builds is the map of the header.        *)

\* const sheetTable = this.getSheetTable_(sheetName); return sheetTable.method(...):
\* the outcome of the table's method and the sheetMap the lookup leaves.  A
\* lookup that throws ends the call; a value that is no SheetTable has no
\* such method.
OnSheetTable(sheetName, out) ==
    LET got == getSheetTable_(sheetName)
    IN  IF got.err # "" THEN [call |-> Throw(got.err, rows), sheetMap |-> got.sheetMap]
        ELSE IF got.val.t # "SheetTable" THEN [call |-> Throw("TypeError", rows), sheetMap |-> got.sheetMap]
        ELSE [call |-> out, sheetMap |-> got.sheetMap]

SpreadsheetDB_insert(sheetName, rowValues) == OnSheetTable(sheetName, insert(rowValues))

SpreadsheetDB_insertAll(sheetName, rowValuesArray) ==
    OnSheetTable(sheetName, insertAll(rowValuesArray))

\* if (sortBy) return the ...Sorted method's result; the plain method's otherwise.
SpreadsheetDB_selectByPk(sheetName, pkColumnName, pkValue, sortBy) ==
    OnSheetTable(sheetName,
                 IF sortBy.given THEN selectByPkSorted(pkColumnName, pkValue, sortBy)
                 ELSE selectByPk(pkColumnName, pkValue))

SpreadsheetDB_selectByColumn(sheetName, columnName, value, sortBy) ==
    OnSheetTable(sheetName,
                 IF sortBy.given THEN selectByColumnSorted(columnName, value, sortBy)
                 ELSE selectByColumn(columnName, value))

SpreadsheetDB_selectByColumnSorted(sheetName, columnName, value, sortBy) ==
    OnSheetTable(sheetName, selectByColumnSorted(columnName, value, sortBy))

SpreadsheetDB_selectByColumns(sheetName, criteria, sortBy) ==
    OnSheetTable(sheetName,
                 IF sortBy.given THEN selectByColumnsSorted(criteria, sortBy)
                 ELSE selectByColumns(criteria))

SpreadsheetDB_selectAll(sheetName, sortBy) ==
    OnSheetTable(sheetName, IF sortBy.given THEN selectAllSorted(sortBy) ELSE selectAll)

SpreadsheetDB_selectMax(sheetName, columnName) == OnSheetTable(sheetName, selectMax(columnName))

SpreadsheetDB_selectByPkAndIncrement(sheetName, pkColumnName, pkValue, columnName, increment) ==
    OnSheetTable(sheetName, selectByPkAndIncrement(pkColumnName, pkValue, columnName, increment))

SpreadsheetDB_updateByPk(sheetName, pkColumnName, pkValue, rowValues) ==
    OnSheetTable(sheetName, updateByPk(pkColumnName, pkValue, rowValues))

SpreadsheetDB_updateItemByPk(sheetName, pkColumnName, pkValue, columnName, value) ==
    OnSheetTable(sheetName, updateItemByPk(pkColumnName, pkValue, columnName, value))

SpreadsheetDB_updateItemByColumns(sheetName, criteria, columnName, value) ==
    OnSheetTable(sheetName, updateItemByColumns(criteria, columnName, value))

SpreadsheetDB_updateItemsByColumns(sheetName, criteria, columnValues) ==
    OnSheetTable(sheetName, updateItemsByColumns(criteria, columnValues))

\* SpreadsheetDB has no method updateCells: the call of the missing property
\* throws before any table is looked up.
SpreadsheetDB_updateCells(sheetName, cellUpdates, answer) ==
    [call |-> Throw("TypeError", rows), sheetMap |-> sheetMap]

\* The sheet names the methods are called with: the sheet under study, a
\* name of no sheet, a name Object.prototype defines.
DbSheetNames == {"Orders", "Missing", "constructor"}

\* The arguments of the calls made through SpreadsheetDB.
DbObjs == {Obj1("id", Num(7)), Obj2("n", Num(7), "zz", Str("a"))}
DbObjSeqs == {<<>>, <<Obj1("id", Num(7))>>}
DbPkArgs == {<<"id", Num(1)>>, <<"id", Num(4)>>, <<"zz", Num(1)>>}
DbColumnArgs == {<<"s", Str("a")>>, <<"id", Str("1")>>}
DbCriterias == {<<>>, <<Entry("id", Num(1)), Entry("s", Str("b"))>>}
DbSortBys == {NoSort, SortBy("id", "DESC")}
DbIncrementArgs == {"id"} \X {Num(1), Num(2)} \X {"n"} \X Incs

\* new SpreadsheetDB(spreadsheetId): sheetMap = {}; columnIndexMap is the map
\* a SheetTable of the sheet holds once it is made.
InitRegistry ==
    \E t \in Tables :
        /\ header = t.header
        /\ rows = t.rows
        /\ columnIndexMap = createColumnIndexMap_(t.header)
        /\ last = [op |-> "SpreadsheetDB", args |-> NoArgs, pre |-> t.rows,
                   preHeader |-> t.header, err |-> "", res |-> <<>>, val |-> Undefined]
        /\ nops = 0
        /\ sheetMap = <<>>
        /\ pending = NoPending
        /\ nedits = 0
        /\ pendingOther = NoPending
        /\ sheets = {"Orders", "Items"}

\* One call of a method of SpreadsheetDB: the lookup's sheetMap and the
\* table call's rows are kept, the call is recorded with its sheet name.
DbCall(op, args, out) ==
    /\ nops < MaxOps
    /\ nops' = nops + 1
    /\ MainSheet \in DOMAIN out.sheetMap =>
          out.sheetMap[MainSheet].columnIndexMap = columnIndexMap
    /\ sheetMap' = out.sheetMap
    /\ rows' = out.call.rows
    /\ header' = out.call.header
    /\ last' = [op |-> op, args |-> args, pre |-> rows, preHeader |-> header,
                err |-> out.call.err, res |-> out.call.res, val |-> out.call.val]
    /\ UNCHANGED <<columnIndexMap, pending, nedits, pendingOther, sheets>>

DbInsert ==
    \E n \in DbSheetNames, o \in DbObjs :
        DbCall("insert", [NoArgs EXCEPT !.sheetName = n, !.rowValues = o],
               SpreadsheetDB_insert(n, o))

DbInsertAll ==
    \E n \in DbSheetNames, os \in DbObjSeqs :
        DbCall("insertAll", [NoArgs EXCEPT !.sheetName = n, !.rowValuesArray = os],
               SpreadsheetDB_insertAll(n, os))

DbSelectByPk ==
    \E n \in DbSheetNames, a \in DbPkArgs, sb \in DbSortBys :
        DbCall("selectByPk",
               [NoArgs EXCEPT !.sheetName = n, !.pkColumnName = a[1], !.pkValue = a[2],
                              !.sortBy = sb],
               SpreadsheetDB_selectByPk(n, a[1], a[2], sb))

DbSelectByColumn ==
    \E n \in DbSheetNames, a \in DbColumnArgs, sb \in DbSortBys :
        DbCall("selectByColumn",
               [NoArgs EXCEPT !.sheetName = n, !.columnName = a[1], !.value = a[2],
                              !.sortBy = sb],
               SpreadsheetDB_selectByColumn(n, a[1], a[2], sb))

DbSelectByColumnSorted ==
    \E n \in DbSheetNames, a \in DbColumnArgs, sb \in DbSortBys :
        DbCall("selectByColumnSorted",
               [NoArgs EXCEPT !.sheetName = n, !.columnName = a[1], !.value = a[2],
                              !.sortBy = sb],
               SpreadsheetDB_selectByColumnSorted(n, a[1], a[2], sb))

DbSelectByColumns ==
    \E n \in DbSheetNames, cr \in DbCriterias, sb \in DbSortBys :
        DbCall("selectByColumns",
               [NoArgs EXCEPT !.sheetName = n, !.criteria = cr, !.sortBy = sb],
               SpreadsheetDB_selectByColumns(n, cr, sb))

DbSelectAll ==
    \E n \in DbSheetNames, sb \in DbSortBys :
        DbCall("selectAll", [NoArgs EXCEPT !.sheetName = n, !.sortBy = sb],
               SpreadsheetDB_selectAll(n, sb))

DbSelectMax ==
    \E n \in DbSheetNames, c \in {"n", "zz"} :
        DbCall("selectMax", [NoArgs EXCEPT !.sheetName = n, !.columnName = c],
               SpreadsheetDB_selectMax(n, c))

DbSelectByPkAndIncrement ==
    \E n \in DbSheetNames, a \in DbIncrementArgs :
        DbCall("selectByPkAndIncrement",
               [NoArgs EXCEPT !.sheetName = n, !.pkColumnName = a[1], !.pkValue = a[2],
                              !.columnName = a[3], !.increment = a[4]],
               SpreadsheetDB_selectByPkAndIncrement(n, a[1], a[2], a[3], a[4]))

DbUpdateByPk ==
    \E n \in DbSheetNames, a \in DbPkArgs, o \in DbObjs :
        DbCall("updateByPk",
               [NoArgs EXCEPT !.sheetName = n, !.pkColumnName = a[1], !.pkValue = a[2],
                              !.rowValues = o],
               SpreadsheetDB_updateByPk(n, a[1], a[2], o))

DbUpdateItemByPk ==
    \E n \in DbSheetNames, a \in DbPkArgs, v \in Vals :
        DbCall("updateItemByPk",
               [NoArgs EXCEPT !.sheetName = n, !.pkColumnName = a[1], !.pkValue = a[2],
                              !.columnName = "n", !.value = v],
               SpreadsheetDB_updateItemByPk(n, a[1], a[2], "n", v))

DbUpdateItemByColumns ==
    \E n \in DbSheetNames, cr \in DbCriterias, v \in Vals :
        DbCall("updateItemByColumns",
               [NoArgs EXCEPT !.sheetName = n, !.criteria = cr, !.columnName = "n",
                              !.value = v],
               SpreadsheetDB_updateItemByColumns(n, cr, "n", v))

DbUpdateItemsByColumns ==
    \E n \in DbSheetNames, cr \in DbCriterias, o \in DbObjs :
        DbCall("updateItemsByColumns",
               [NoArgs EXCEPT !.sheetName = n, !.criteria = cr, !.columnValues = o],
               SpreadsheetDB_updateItemsByColumns(n, cr, o))

DbUpdateCells ==
    \E n \in DbSheetNames, cu \in CellUpdatesArgs :
        \E answer \in StoreAnswers(Len(cu)) :
            DbCall("updateCells",
                   [NoArgs EXCEPT !.sheetName = n, !.cellUpdates = cu, !.answer = answer],
                   SpreadsheetDB_updateCells(n, cu, answer))

NextRegistry ==
    \/ DbInsert
    \/ DbInsertAll
    \/ DbSelectByPk
    \/ DbSelectByColumn
    \/ DbSelectByColumnSorted
    \/ DbSelectByColumns
    \/ DbSelectAll
    \/ DbSelectMax
    \/ DbSelectByPkAndIncrement
    \/ DbUpdateByPk
    \/ DbUpdateItemByPk
    \/ DbUpdateItemByColumns
    \/ DbUpdateItemsByColumns
    \/ DbUpdateCells

SpecRegistry == InitRegistry /\ [][NextRegistry]_vars

-----------------------------------------------------------------------------
(* A sheet made while the script runs: the spreadsheet starts without the   *)
(* sheet "Orders", the script asks for its table, and another user makes    *)
(* the sheet, header row and data rows included, between two calls.         *)

\* The sheets another user can add to the spreadsheet.
CreatedSheetNames == {"Orders", "Missing"}

\* new SpreadsheetDB(spreadsheetId) on a spreadsheet that has only "Items".
InitSheets ==
    \E t \in Tables :
        /\ header = t.header
        /\ rows = t.rows
        /\ columnIndexMap = <<>>
        /\ last = [op |-> "SpreadsheetDB", args |-> NoArgs, pre |-> t.rows,
                   preHeader |-> t.header, err |-> "", res |-> <<>>, val |-> Undefined]
        /\ nops = 0
        /\ sheetMap = <<>>
        /\ pending = NoPending
        /\ nedits = 0
        /\ pendingOther = NoPending
        /\ sheets = {"Items"}

\* Another user adds a sheet to the spreadsheet.
OtherCreatesSheet ==
    /\ nedits < MaxEdits
    /\ ~pending.active
    /\ \E sheetName \in CreatedSheetNames \ sheets :
          sheets' = sheets \cup {sheetName}
    /\ nedits' = nedits + 1
    /\ UNCHANGED <<header, rows, columnIndexMap, last, nops, sheetMap, pending, pendingOther>>

NextSheets ==
    \/ CallGetSheetTable
    \/ OnTable(CallInsert)
    \/ OnTable(CallSelectAll)
    \/ OtherCreatesSheet

SpecSheets == InitSheets /\ [][NextSheets]_vars

-----------------------------------------------------------------------------
(* Properties.  They are stated over the sheet before the last call         *)
(* (last.pre), the sheet after it (rows) and the call's outcome, in terms   *)
(* of cells and column names.                                               *)

\* Column names are unique in the header.
UniqueHeader == Cardinality(DOMAIN columnIndexMap) = Len(header)

\* Two values have the same string representation.
StrEq(a, b) == JsString(a) = JsString(b)

\* The RecordObject of a row: each column name with the row's cell in its column.
Decode(row) == [name \in DOMAIN columnIndexMap |-> row[columnIndexMap[name] + 1]]

\* The Record of a RecordObject: each named column holds the object's value,
\* every other column the empty sentinel; keys that name no column are ignored.
Encode(obj) ==
    [c \in 1..Width |->
        IF \E name \in DOMAIN obj \cap DOMAIN columnIndexMap : columnIndexMap[name] = c - 1
        THEN obj[CHOOSE name \in DOMAIN obj \cap DOMAIN columnIndexMap :
                    columnIndexMap[name] = c - 1]
        ELSE Empty]

AllKnown(criteria) == \A e \in 1..Len(criteria) : criteria[e].k \in DOMAIN columnIndexMap

\* The row satisfies every entry of the criteria.
MatchesAll(row, criteria) ==
    \A e \in 1..Len(criteria) :
        /\ criteria[e].k \in DOMAIN columnIndexMap
        /\ StrEq(row[columnIndexMap[criteria[e].k] + 1], criteria[e].v)

\* 0-based indices of the rows, as read before the last call, that satisfy the criteria.
PreMatching(criteria) ==
    {i \in 0..(Len(last.pre) - 1) : MatchesAll(last.pre[i + 1], criteria)}

\* 0-based indices of the rows, as read before the last call, whose pk cell matches.
PrePk(pkColumnName, pkValue) ==
    {i \in 0..(Len(last.pre) - 1) :
        StrEq(last.pre[i + 1][columnIndexMap[pkColumnName] + 1], pkValue)}

\* Every data index of the sheet before or after the last call, and one beyond.
RowIndices == 0..(IF Len(rows) > Len(last.pre) THEN Len(rows) ELSE Len(last.pre))
ColIndices == 0..(Width - 1)

Count(x, seq) == Cardinality({i \in 1..Len(seq) : seq[i] = x})
SameBag(s1, s2) ==
    /\ Len(s1) = Len(s2)
    /\ \A i \in 1..Len(s1) : Count(s1[i], s1) = Count(s1[i], s2)

SortedOps == {"selectByPkSorted", "selectByColumnSorted", "selectByColumnsSorted", "selectAllSorted"}

\* The last call was a select with a sort specification on a known column, and returned.
SortCase ==
    /\ last.op \in SortedOps
    /\ last.err = ""
    /\ last.args.sortBy.given
    /\ last.args.sortBy.column \in DOMAIN columnIndexMap

\* What the same select returns without the sort specification.
Unsorted ==
    CASE last.op = "selectByPkSorted" -> selectByPk(last.args.pkColumnName, last.args.pkValue).res
      [] last.op = "selectByColumnSorted" -> selectByColumn(last.args.columnName, last.args.value).res
      [] last.op = "selectByColumnsSorted" -> selectByColumns(last.args.criteria).res
      [] last.op = "selectAllSorted" -> selectAll.res

\* C1: a select with a sort specification on a known column returns its
\* records ordered by the rows' values in that column: non-decreasing for ASC,
\* non-increasing for DESC.
C1_SortedSelectIsOrdered ==
    SortCase =>
        LET c    == last.args.sortBy.column
            vals == [i \in 1..Len(last.res) |-> last.res[i][c]]
        IN  /\ \A i \in 1..Len(vals) : vals[i] \in {Unsorted[k][c] : k \in 1..Len(Unsorted)}
            /\ \A i, j \in 1..Len(vals) :
                  i < j => IF last.args.sortBy.order = "ASC"
                           THEN ~JsGreater(vals[i], vals[j])
                           ELSE ~JsLess(vals[i], vals[j])

\* C2: a select with a sort specification returns the same records as the
\* select without it, possibly in another order.
C2_SortKeepsRecords == SortCase => SameBag(last.res, Unsorted)

\* The matched rows' records after the last call, in row order.
RECURSIVE UpdatedFrom(_, _)
UpdatedFrom(i, S) ==
    IF i >= Len(last.pre) THEN <<>>
    ELSE IF i \in S THEN <<Decode(RowAt(rows, i))>> \o UpdatedFrom(i + 1, S)
    ELSE UpdatedFrom(i + 1, S)

\* C3: updateItemByColumns and updateItemsByColumns return the RecordObject of
\* every row that matched the criteria, as patched, in row order.
C3_UpdateReturnsUpdatedRecords ==
    (last.op \in {"updateItemByColumns", "updateItemsByColumns"} /\ last.err = "")
        => last.res = UpdatedFrom(0, PreMatching(last.args.criteria))

C4_Case ==
    /\ last.op = "updateItemByColumns"
    /\ AllKnown(last.args.criteria)
    /\ last.args.columnName \in DOMAIN columnIndexMap

\* C4: updateItemByColumns with known columns sets column col of every row
\* that matched the criteria to value and changes no other cell.
C4_UpdateItemByColumnsFrame ==
    C4_Case =>
        /\ last.err = ""
        /\ \A i \in RowIndices, c \in ColIndices :
              Cell(rows, i, c) =
                  IF i \in PreMatching(last.args.criteria)
                        /\ c = columnIndexMap[last.args.columnName]
                  THEN last.args.value
                  ELSE Cell(last.pre, i, c)

\* C4 happens: a criteria with entries selects some rows and not others, and
\* a cell changed.
C4_Witness ==
    /\ C4_Case
    /\ last.args.criteria # <<>>
    /\ PreMatching(last.args.criteria) # {}
    /\ PreMatching(last.args.criteria) # 0..(Len(last.pre) - 1)
    /\ rows # last.pre

\* C5: insertAll writes the encoded records as one block that starts at the
\* row right after the last row (data index Len(last.pre)), and returns their
\* number.
C5_InsertAllContiguous ==
    (last.op = "insertAll" /\ last.err = "") =>
        /\ last.val = Num(Len(last.args.rowValuesArray))
        /\ \A k \in 1..Len(last.args.rowValuesArray) :
              RowAt(rows, Len(last.pre) + k - 1) = Encode(last.args.rowValuesArray[k])

\* C6: insertAll of an empty sequence fails and leaves the sheet unchanged.
C6_InsertAllEmptyFails ==
    (last.op = "insertAll" /\ Len(last.args.rowValuesArray) = 0)
        => (last.err # "" /\ rows = last.pre)

\* C6 happens: insertAll of an empty sequence was called on a sheet with data.
C6_Witness ==
    /\ last.op = "insertAll"
    /\ Len(last.args.rowValuesArray) = 0
    /\ last.err = "TypeError"
    /\ last.pre # <<>>

C7_Case ==
    /\ last.op = "updateByPk"
    /\ last.args.pkColumnName \in DOMAIN columnIndexMap
    /\ PrePk(last.args.pkColumnName, last.args.pkValue) # {}

\* The row updateByPk is to leave: the first matching row replaced by the
\* object's record, the returned RecordObject that row's.
C7_Replaced ==
    LET first == Min(PrePk(last.args.pkColumnName, last.args.pkValue))
    IN  /\ last.err = ""
        /\ \A i \in RowIndices, c \in ColIndices :
              Cell(rows, i, c) = IF i = first THEN Encode(last.args.rowValues)[c + 1]
                                 ELSE Cell(last.pre, i, c)
        /\ last.res = <<Decode(Encode(last.args.rowValues))>>

C7_UpdateByPkReplacesUniqueHeader == (C7_Case /\ UniqueHeader) => C7_Replaced

C8_Case ==
    /\ last.op = "updateItemByPk"
    /\ last.args.pkColumnName \in DOMAIN columnIndexMap
    /\ last.args.columnName \in DOMAIN columnIndexMap
    /\ PrePk(last.args.pkColumnName, last.args.pkValue) # {}

\* C8: updateItemByPk with a matching row sets the cell of column col in the
\* first matching row to value, changes no other cell, and returns the patched
\* row's RecordObject.
C8_UpdateItemByPkFrame ==
    C8_Case =>
        LET first == Min(PrePk(last.args.pkColumnName, last.args.pkValue))
        IN  /\ last.err = ""
            /\ \A i \in RowIndices, c \in ColIndices :
                  Cell(rows, i, c) =
                      IF i = first /\ c = columnIndexMap[last.args.columnName]
                      THEN last.args.value
                      ELSE Cell(last.pre, i, c)
            /\ last.res = <<Decode(RowAt(rows, first))>>

\* C8 happens: a cell of a row that is not the first data row was changed,
\* while another row has the same key.
C8_Witness ==
    /\ C8_Case
    /\ Cardinality(PrePk(last.args.pkColumnName, last.args.pkValue)) > 1
    /\ Min(PrePk(last.args.pkColumnName, last.args.pkValue)) > 0
    /\ rows # last.pre

\* The pk columns C9 speaks of: known columns the inserted object specifies
\* and whose value no row held before the insert.
C9_Pks ==
    {pk \in DOMAIN last.args.rowValues \cap DOMAIN columnIndexMap :
        PrePk(pk, last.args.rowValues[pk]) = {}}

\* What selectByPk(pk, obj[pk]) returns after insert(obj): exactly the object,
\* completed with the empty sentinel and restricted to the header's columns.
C9_RoundTrip(pk) ==
    LET obj      == last.args.rowValues
        selected == selectByPk(pk, obj[pk])
    IN  /\ last.err = ""
        /\ last.val = Num(1)
        /\ selected.err = ""
        /\ selected.res = << [name \in DOMAIN columnIndexMap |->
                                 IF name \in DOMAIN obj THEN obj[name] ELSE Empty] >>

\* C9 as stated: with unique header names and a fresh pk value, insert(obj)
\* returns 1 and selectByPk(pk, obj[pk]) then returns exactly obj's record.
C9_InsertThenSelect ==
    (last.op = "insert" /\ UniqueHeader) => \A pk \in C9_Pks : C9_RoundTrip(pk)

\* The object gives some header column a non-empty value.
C9_HasContent ==
    \E name \in DOMAIN last.args.rowValues \cap DOMAIN columnIndexMap :
        last.args.rowValues[name] # Empty

\* C9, amended: as C9, for an object that gives at least one header column a
\* non-empty value (a record of empty cells adds no row to the sheet).
C9_InsertThenSelectWithContent ==
    (last.op = "insert" /\ UniqueHeader /\ C9_HasContent) => \A pk \in C9_Pks : C9_RoundTrip(pk)

\* C9 happens: an object that omits a column was inserted into a sheet with
\* data under a fresh key.
C9_Witness ==
    /\ last.op = "insert"
    /\ UniqueHeader
    /\ C9_HasContent
    /\ C9_Pks # {}
    /\ last.pre # <<>>
    /\ DOMAIN columnIndexMap \ DOMAIN last.args.rowValues # {}

C10_Case ==
    /\ last.op = "selectByPkAndIncrement"
    /\ last.args.pkColumnName \in DOMAIN columnIndexMap
    /\ last.args.columnName \in DOMAIN columnIndexMap
    /\ (last.args.increment = Undefined
           \/ (last.args.increment.t = "number" /\ last.args.increment.s = ""))
    /\ PrePk(last.args.pkColumnName, last.args.pkValue) # {}
    /\ LET old == Cell(last.pre, Min(PrePk(last.args.pkColumnName, last.args.pkValue)),
                       columnIndexMap[last.args.columnName])
       IN  old = Empty \/ old.t = "number"

\* C10: selectByPkAndIncrement on a matching row whose cell is a number or
\* empty returns old + n and leaves old + n in the cell; old is 0 for an empty
\* cell and n is 1 when the increment is omitted.
C10_IncrementAddsToCell ==
    C10_Case =>
        LET first == Min(PrePk(last.args.pkColumnName, last.args.pkValue))
            c     == columnIndexMap[last.args.columnName]
            old   == IF Cell(last.pre, first, c) = Empty THEN 0 ELSE Cell(last.pre, first, c).n
            n     == IF last.args.increment = Undefined THEN 1 ELSE last.args.increment.n
        IN  /\ last.err = ""
            /\ last.val = Num(old + n)
            /\ Cell(rows, first, c) = Num(old + n)

\* C10 happens: an empty cell incremented by 5 yields 5.
C10_Witness ==
    /\ C10_Case
    /\ Cell(last.pre, Min(PrePk(last.args.pkColumnName, last.args.pkValue)),
            columnIndexMap[last.args.columnName]) = Empty
    /\ last.args.increment = Num(5)
    /\ last.val = Num(5)

-----------------------------------------------------------------------------
(* selectByPkAndIncrement: the cell's type and the extent of the write.     *)

\* The cell selectByPkAndIncrement reads: column col of the first row whose
\* pk cell matches, in the sheet before the last call.
IncrementCell ==
    LET m == PrePk(last.args.pkColumnName, last.args.pkValue)
        i == CHOOSE k \in m : \A j \in m : k <= j
    IN  Cell(last.pre, i, columnIndexMap[last.args.columnName])

C11_Case ==
    /\ last.op = "selectByPkAndIncrement"
    /\ last.args.pkColumnName \in DOMAIN columnIndexMap
    /\ last.args.columnName \in DOMAIN columnIndexMap
    /\ (last.args.increment = Undefined
           \/ (last.args.increment.t = "number" /\ last.args.increment.s = ""))
    /\ PrePk(last.args.pkColumnName, last.args.pkValue) # {}
    /\ IncrementCell # Empty
    /\ IncrementCell.t # "number"

\* C11: selectByPkAndIncrement on a matching row whose cell holds a non-empty
\* value that is not a number fails with TypeMismatch and changes no cell.
C11_IncrementTypeMismatch ==
    C11_Case => (last.err = "TypeMismatch" /\ rows = last.pre)

\* C11 happens: the cell of the first matching row holds a boolean.
C11_Witness ==
    /\ C11_Case
    /\ IncrementCell.t = "boolean"
    /\ last.err = "TypeMismatch"

\* The first row of the data the pending call read whose pk cell matches.
PendingTarget ==
    LET pk == columnIndexMap[pending.args.pkColumnName]
        m  == {i \in 0..(Len(pending.data) - 1) :
                  StrEq(pending.data[i + 1][pk + 1], pending.args.pkValue)}
    IN  CHOOSE k \in m : \A j \in m : k <= j

\* C12: the write of selectByPkAndIncrement changes the cell of column col in
\* the first matching row and no other cell: every other cell holds after the
\* write what it held immediately before it.
C12_IncrementWritesOneCell ==
    [][ (pending.active /\ ~pending'.active) =>
           \A i \in 0..(IF Len(rows') > Len(rows) THEN Len(rows') ELSE Len(rows)),
              c \in ColIndices :
                 (i # PendingTarget \/ c # columnIndexMap[pending.args.columnName])
                     => Cell(rows', i, c) = Cell(rows, i, c) ]_vars

\* C12 happens: between the call's read and its write another user changed
\* another cell of the matched row, and the cell keeps that user's value.
C12_Witness ==
    /\ last.op = "selectByPkAndIncrement"
    /\ last.err = ""
    /\ last.val # Null
    /\ ~pending.active
    /\ pending.args = last.args
    /\ \E c \in ColIndices :
          /\ c # columnIndexMap[last.args.columnName]
          /\ Cell(last.pre, PendingTarget, c) # Cell(pending.data, PendingTarget, c)
          /\ Cell(rows, PendingTarget, c) = Cell(last.pre, PendingTarget, c)
    /\ Cell(rows, PendingTarget, columnIndexMap[last.args.columnName]) = last.val

-----------------------------------------------------------------------------
(* selectMax.                                                               *)

\* The numbers in column col of the sheet before the last call.
NumbersInColumn ==
    {Cell(last.pre, i, columnIndexMap[last.args.columnName]).n :
        i \in {k \in 0..(Len(last.pre) - 1) :
                  Cell(last.pre, k, columnIndexMap[last.args.columnName]).t = "number"}}

\* C13: selectMax(col) on a table with data returns the largest of the numbers
\* in column col, whatever the other cells of the column hold and wherever
\* they stand.
C13_SelectMaxIsLargestNumber ==
    (/\ last.op = "selectMax"
     /\ last.args.columnName \in DOMAIN columnIndexMap
     /\ NumbersInColumn # {})
        => (/\ last.err = ""
            /\ last.val.t = "number"
            /\ last.val.s = ""
            /\ last.val.n \in NumbersInColumn
            /\ \A n \in NumbersInColumn : n <= last.val.n)

C14_Case ==
    /\ last.op = "selectMax"
    /\ last.args.columnName \in DOMAIN columnIndexMap
    /\ last.pre = <<>>

\* C14: selectMax(col) with a known column on a table without data rows
\* returns null: it does not fail and does not return 0.
C14_SelectMaxOfEmptyTable ==
    C14_Case => (last.err = "" /\ last.val = Null)

\* C14 happens: selectMax was called on a sheet that holds a header only.
C14_Witness ==
    /\ C14_Case
    /\ rows = <<>>
    /\ last.val # Num(0)

-----------------------------------------------------------------------------
(* The selects.                                                             *)

\* The RecordObjects of the rows at the 0-based indices of S, as the sheet
\* held them before the last call, in row order.
RECURSIVE PreRecordsFrom(_, _)
PreRecordsFrom(i, S) ==
    IF i >= Len(last.pre) THEN <<>>
    ELSE (IF i \in S THEN <<Decode(last.pre[i + 1])>> ELSE <<>>) \o PreRecordsFrom(i + 1, S)

C15_Case ==
    /\ last.op = "selectByPk"
    /\ last.args.pkColumnName \in DOMAIN columnIndexMap

\* C15: selectByPk returns the RecordObject of the matching row with the
\* smallest row number, alone, and the empty result when no row matches.
C15_SelectByPkFirstMatch ==
    C15_Case =>
        LET m == PrePk(last.args.pkColumnName, last.args.pkValue)
        IN  /\ last.err = ""
            /\ Len(last.res) <= 1
            /\ (m = {} => last.res = <<>>)
            /\ (m # {} => \E i \in m : /\ \A j \in m : i <= j
                                       /\ last.res = <<Decode(last.pre[i + 1])>>)

\* C15 happens: two rows with different cells share the key, one is returned.
C15_Witness ==
    /\ C15_Case
    /\ \E i, j \in PrePk(last.args.pkColumnName, last.args.pkValue) :
          i < j /\ last.pre[i + 1] # last.pre[j + 1]
    /\ Len(last.res) = 1

C16_Case ==
    /\ last.op = "selectByColumn"
    /\ last.args.columnName \in DOMAIN columnIndexMap

\* C16: selectByColumn(col, value) returns the RecordObjects of exactly the
\* rows whose col cell has the string representation of value, in row order.
C16_SelectByColumnByString ==
    C16_Case =>
        /\ last.err = ""
        /\ last.res = PreRecordsFrom(0, PrePk(last.args.columnName, last.args.value))

\* C16 happens: the string "7" selects a row whose cell is the number 7 and
\* leaves out a row whose cell is something else.
C16_Witness ==
    /\ C16_Case
    /\ last.args.value = Str("7")
    /\ \E i \in PrePk(last.args.columnName, last.args.value) :
          Cell(last.pre, i, columnIndexMap[last.args.columnName]) = Num(7)
    /\ Len(last.res) >= 1
    /\ Len(last.res) < Len(last.pre)

\* The column and the value the last select matched rows with.
MatchColumn == IF last.op = "selectByPk" THEN last.args.pkColumnName ELSE last.args.columnName
MatchValue  == IF last.op = "selectByPk" THEN last.args.pkValue ELSE last.args.value

\* C17: null and the empty sentinel match each other: a select by null
\* returns rows exactly when some row's cell in the column is empty.
C17_NullMatchesEmpty ==
    (/\ last.op \in {"selectByPk", "selectByColumn"}
     /\ MatchColumn \in DOMAIN columnIndexMap
     /\ MatchValue = Null)
        => (/\ last.err = ""
            /\ (last.res # <<>>) <=>
                   (\E i \in 0..(Len(last.pre) - 1) :
                       Cell(last.pre, i, columnIndexMap[MatchColumn]) = Empty))

\* C18: selectAll returns one RecordObject per data row, in row order, whose
\* names are the header's names, each with the row's cell in a column the
\* name heads.
C18_SelectAllDecodesEveryRow ==
    (last.op = "selectAll") =>
        /\ last.err = ""
        /\ Len(last.res) = Len(last.pre)
        /\ \A i \in 1..Len(last.pre) :
              /\ DOMAIN last.res[i] = {header[k] : k \in 1..Len(header)}
              /\ \A name \in DOMAIN last.res[i] :
                    \E k \in 1..Len(header) :
                        header[k] = name /\ last.res[i][name] = last.pre[i][k]

\* C18 happens: selectAll on a sheet with several different rows, one of them
\* with an empty cell.
C18_Witness ==
    /\ last.op = "selectAll"
    /\ Len(last.pre) >= 2
    /\ last.pre[1] # last.pre[2]
    /\ \E i \in 1..Len(last.pre), k \in 1..Len(header) : last.pre[i][k] = Empty
    /\ Len(last.res) = Len(last.pre)

\* C19: in every state of the sheet selectByColumns({}) returns what
\* selectAll() returns.
C19_EmptyCriteriaIsSelectAll ==
    /\ selectByColumns(<<>>).err = selectAll.err
    /\ selectByColumns(<<>>).res = selectAll.res

\* C19 happens: selectByColumns({}) was called on a sheet with data and
\* returned a record for every row.
C19_Witness ==
    /\ last.op = "selectByColumns"
    /\ last.args.criteria = <<>>
    /\ last.pre # <<>>
    /\ rows = last.pre
    /\ Len(last.res) = Len(rows)
    /\ last.res = selectAll.res

-----------------------------------------------------------------------------
(* The registry of tables.                                                  *)

\* One step keeps every table of sheetMap: the object stored for a name
\* stays stored for it, unchanged, and is what a call for that name returns.
C20_Step ==
    \A name \in DOMAIN sheetMap :
        /\ name \in DOMAIN sheetMap'
        /\ sheetMap'[name] = sheetMap[name]
        /\ sheetMap'[name].columnIndexMap = createColumnIndexMap_(sheetMap[name].headers)
        /\ (name = MainSheet => columnIndexMap' = sheetMap[name].columnIndexMap)
        /\ (last'.op = "getSheetTable_" /\ last'.args.sheetName = name)
               => (/\ last'.err = ""
                   /\ last'.val.t = "SheetTable"
                   /\ last'.val.n = sheetMap[name].id)

\* C20: once a table is stored for a name every later call for that name
\* returns that same object, and its column index map stays the one built
\* from the header read when it was made, whatever calls are made on the
\* table and whatever header the sheet is given.
C20_CachedTableIsKept == [][C20_Step]_vars

\* C20 happens: the table of the sheet was asked for after another user
\* replaced the header row, and the table made before that was returned.
C20_Witness ==
    /\ last.op = "getSheetTable_"
    /\ last.args.sheetName = MainSheet
    /\ MainSheet \in DOMAIN sheetMap
    /\ last.preHeader # sheetMap[MainSheet].headers
    /\ last.val.n = sheetMap[MainSheet].id
    /\ columnIndexMap = createColumnIndexMap_(sheetMap[MainSheet].headers)
    /\ columnIndexMap # createColumnIndexMap_(header)

\* C21: a call for the table of a name that no sheet of the spreadsheet has
\* fails with NotFound and returns nothing.
C21_MissingSheetFails ==
    (last.op = "getSheetTable_" /\ ~SheetExists(last.args.sheetName))
        => (last.err = "NotFound" /\ last.val = Undefined)

-----------------------------------------------------------------------------
(* Unknown columns and calls that match no row.                             *)

PkOps       == {"selectByPk", "selectByPkSorted", "updateByPk", "updateItemByPk"}
ColumnOps   == {"selectByColumn", "selectByColumnSorted"}
CriteriaOps == {"selectByColumns", "selectByColumnsSorted",
                "updateItemByColumns", "updateItemsByColumns"}

\* The last call names a pk, match or criteria column the header does not have.
UnknownMatchColumn ==
    \/ last.op \in PkOps /\ last.args.pkColumnName \notin DOMAIN columnIndexMap
    \/ last.op \in ColumnOps /\ last.args.columnName \notin DOMAIN columnIndexMap
    \/ last.op \in CriteriaOps /\ ~AllKnown(last.args.criteria)

\* C22: a select or update that names an unknown pk or criteria column fails
\* with InvalidColumn and changes no cell, whatever the sheet holds.
C22_UnknownMatchColumnFails ==
    UnknownMatchColumn => (last.err = "InvalidColumn" /\ rows = last.pre)

\* The last call is an update that names a target column the header does not
\* have, its pk or criteria columns being known.
UnknownTargetColumn ==
    /\ ~UnknownMatchColumn
    /\ \/ /\ last.op \in {"updateItemByPk", "updateItemByColumns"}
          /\ last.args.columnName \notin DOMAIN columnIndexMap
       \/ /\ last.op = "updateItemsByColumns"
          /\ \E k \in DOMAIN last.args.columnValues : k \notin DOMAIN columnIndexMap

\* C23: an update that names an unknown target column fails with
\* InvalidColumn and changes no cell, whether or not a row matches.
C23_UnknownTargetColumnFails ==
    UnknownTargetColumn => (last.err = "InvalidColumn" /\ rows = last.pre)

\* C24: a select with a sort specification on an unknown column fails with
\* InvalidColumn whatever rows the select found; without a sort specification
\* it returns what the select found, in row order.
C24_UnknownSortColumnFails ==
    (last.op \in SortedOps /\ ~UnknownMatchColumn) =>
        /\ (last.args.sortBy.given /\ last.args.sortBy.column \notin DOMAIN columnIndexMap)
               => last.err = "InvalidColumn"
        /\ ~last.args.sortBy.given => (last.err = "" /\ last.res = Unsorted)

\* The last call names known columns only and no row of the sheet matches it.
C25_Case ==
    /\ ~UnknownMatchColumn
    /\ \/ /\ last.op \in {"selectByPk", "updateByPk"}
          /\ PrePk(last.args.pkColumnName, last.args.pkValue) = {}
       \/ /\ last.op = "updateItemByPk"
          /\ last.args.columnName \in DOMAIN columnIndexMap
          /\ PrePk(last.args.pkColumnName, last.args.pkValue) = {}
       \/ /\ last.op = "selectByColumn"
          /\ PrePk(last.args.columnName, last.args.value) = {}
       \/ /\ last.op = "selectByColumns"
          /\ PreMatching(last.args.criteria) = {}
       \/ /\ last.op = "updateItemByColumns"
          /\ last.args.columnName \in DOMAIN columnIndexMap
          /\ PreMatching(last.args.criteria) = {}
       \/ /\ last.op = "updateItemsByColumns"
          /\ DOMAIN last.args.columnValues \subseteq DOMAIN columnIndexMap
          /\ PreMatching(last.args.criteria) = {}
       \/ /\ last.op = "selectByPkAndIncrement"
          /\ last.args.pkColumnName \in DOMAIN columnIndexMap
          /\ last.args.columnName \in DOMAIN columnIndexMap
          /\ (last.args.increment = Undefined
                 \/ (last.args.increment.t = "number" /\ last.args.increment.s = ""))
          /\ PrePk(last.args.pkColumnName, last.args.pkValue) = {}

\* C25: a call that matches no row raises nothing and changes no cell; it
\* returns the empty sequence, selectByPkAndIncrement returns null.
C25_NoMatchIsNoError ==
    C25_Case =>
        /\ last.err = ""
        /\ rows = last.pre
        /\ IF last.op = "selectByPkAndIncrement" THEN last.val = Null ELSE last.res = <<>>

\* C25 happens: an update by a key no row of a sheet with data has.
C25_Witness ==
    /\ C25_Case
    /\ last.op \in {"updateByPk", "updateItemByPk"}
    /\ last.pre # <<>>

-----------------------------------------------------------------------------
(* updateCells.                                                             *)

\* C26: updateCells raises nothing; it returns false whenever the store
\* throws on the batch, leaving every cell as it was, and returns true only
\* when the store answered with one reply per entry of cellUpdates.
C26_UpdateCellsReportsFailure ==
    (last.op = "updateCells") =>
        /\ last.err = ""
        /\ last.args.answer.thrown => (last.val = Bool(FALSE) /\ rows = last.pre)
        /\ (last.val = Bool(TRUE)) =>
               (/\ ~last.args.answer.thrown
                /\ last.args.answer.replies = Len(last.args.cellUpdates))

\* C26 happens: the store threw on a batch of two cells of a sheet with data.
C26_Witness ==
    /\ last.op = "updateCells"
    /\ last.args.answer.thrown
    /\ Len(last.args.cellUpdates) = 2
    /\ last.pre # <<>>
    /\ last.val = Bool(FALSE)

-----------------------------------------------------------------------------
(* Reads of the sheet.                                                      *)

\* One step reads the data rows the sheet holds when the step is taken:
\* selectAll returns their RecordObjects and selectByPkAndIncrement adds to
\* the number the cell holds.
C27_Step ==
    /\ (last' # last /\ last'.op = "selectAll")
           => last'.res = [i \in 1..Len(rows) |-> Decode(rows[i])]
    /\ (pending'.active /\ ~pending.active)
           => LET m    == {i \in 0..(Len(rows) - 1) :
                              StrEq(rows[i + 1][columnIndexMap[pending'.args.pkColumnName] + 1],
                                    pending'.args.pkValue)}
                  i    == CHOOSE k \in m : \A j \in m : k <= j
                  cell == Cell(rows, i, columnIndexMap[pending'.args.columnName])
                  n    == IF pending'.args.increment = Undefined THEN 1
                          ELSE pending'.args.increment.n
              IN  pending'.newValue = Num((IF cell = Empty THEN 0 ELSE cell.n) + n)

\* C27: every call computes its result from the data rows the sheet holds at
\* the time of the call, whoever changed them since the call before.
C27_ReadsAreFresh == [][C27_Step]_vars

\* C27 happens: selectAll returned the value another user wrote to a cell
\* after the table was made.
C27_Witness ==
    /\ last.op = "selectAll"
    /\ nedits = 1
    /\ header = last.preHeader
    /\ \E i \in 1..Len(last.res), name \in DOMAIN columnIndexMap :
          /\ last.res[i][name] \in OtherVals
          /\ last.pre[i][columnIndexMap[name] + 1] \in OtherVals

-----------------------------------------------------------------------------
(* The records written.                                                     *)

\* The Record the table encodes for an object has one position per header
\* column, each holding a value of the object or the empty sentinel.
EncodesToHeaderWidth(obj) ==
    LET record == createRecord_(obj, columnIndexMap)
    IN  /\ Len(record) = Len(header)
        /\ \A p \in 1..Len(record) :
              record[p] = Empty \/ \E k \in DOMAIN obj : record[p] = obj[k]

\* C28: every Record that insert, insertAll and updateByPk encode has the
\* length of the header row, whatever the object and the header.
C28_RecordHasHeaderWidth ==
    /\ last.op \in {"insert", "updateByPk"} => EncodesToHeaderWidth(last.args.rowValues)
    /\ last.op = "insertAll" =>
           \A i \in 1..Len(last.args.rowValuesArray) :
               EncodesToHeaderWidth(last.args.rowValuesArray[i])

-----------------------------------------------------------------------------
(* Two executions incrementing one cell.                                    *)

\* Both executions completed a selectByPkAndIncrement on the same cell, and
\* both read the sheet before either wrote.
C29_Case ==
    /\ ~pending.active
    /\ ~pendingOther.active
    /\ pending.args # NoArgs
    /\ pendingOther.args # NoArgs
    /\ pending.recordIndex = pendingOther.recordIndex
    /\ pending.columnIndex = pendingOther.columnIndex
    /\ pending.data = pendingOther.data

\* C29: when two increments n1 and n2 of one cell both read before either
\* writes, the cell ends at old + n1 or at old + n2, not at old + n1 + n2.
C29_LostUpdate ==
    C29_Case =>
        LET read  == Cell(pending.data, pending.recordIndex, pending.columnIndex)
            old   == IF read = Empty THEN 0 ELSE read.n
            n1    == IF pending.args.increment = Undefined THEN 1
                     ELSE pending.args.increment.n
            n2    == IF pendingOther.args.increment = Undefined THEN 1
                     ELSE pendingOther.args.increment.n
            final == Cell(rows, pending.recordIndex, pending.columnIndex)
        IN  /\ final \in {Num(old + n1), Num(old + n2)}
            /\ final # Num(old + n1 + n2)

\* C29 happens: increments of 1 and of 5 interleaved and the cell holds the
\* old value plus one of them.
C29_Witness ==
    /\ C29_Case
    /\ pending.args.increment = Undefined
    /\ pendingOther.args.increment = Num(5)
    /\ pending.newValue # pendingOther.newValue
    /\ Cell(rows, pending.recordIndex, pending.columnIndex)
           \in {pending.newValue, pendingOther.newValue}

-----------------------------------------------------------------------------
(* The arguments of selectByPkAndIncrement.                                 *)

\* The last call is a selectByPkAndIncrement with a name that is not a
\* non-empty string or an increment that is not a number.
C30_Case ==
    /\ last.op = "selectByPkAndIncrement"
    /\ \/ last.args.nameTypes # <<"string", "string">>
       \/ last.args.pkColumnName = ""
       \/ last.args.columnName = ""
       \/ /\ last.args.increment # Undefined
          /\ (last.args.increment.t # "number" \/ last.args.increment.s = "NaN")

\* C30: such a call fails with InvalidArgument and changes no cell.
C30_InvalidArgumentFails ==
    C30_Case => (last.err = "InvalidArgument" /\ rows = last.pre)

\* C30 happens: the increment NaN was given for a cell that holds a number in
\* a row that matches.
C30_Witness ==
    /\ C30_Case
    /\ last.args.increment = NaN
    /\ last.args.pkColumnName \in DOMAIN columnIndexMap
    /\ last.args.columnName \in DOMAIN columnIndexMap
    /\ PrePk(last.args.pkColumnName, last.args.pkValue) # {}
    /\ IncrementCell.t = "number"
    /\ last.err = "InvalidArgument"

-----------------------------------------------------------------------------
(* A header that repeats a name.                                            *)

\* The names that head two or more columns.
DuplicateNames ==
    {header[j] : j \in {k \in 1..Len(header) : \E m \in 1..Len(header) : m # k /\ header[m] = header[k]}}

\* The 0-based position of the last column a name heads.
LastColumn(name) ==
    (CHOOSE j \in 1..Len(header) :
        header[j] = name /\ \A m \in 1..Len(header) : header[m] = name => m <= j) - 1

\* The value a RecordObject holds for a name when the name reads its last column.
LastValue(row, name) == row[LastColumn(name) + 1]

\* 0-based indices of the rows, as read before the last call, whose cell in the
\* last column of the name matches.
PreLast(name, value) ==
    {i \in 0..(Len(last.pre) - 1) : StrEq(LastValue(last.pre[i + 1], name), value)}

\* The rows a select with a sort specification selected, in row order.
SortSelected ==
    CASE last.op = "selectAllSorted" -> last.pre
      [] last.op = "selectByColumnsSorted" ->
            RowsAt(last.pre, PreMatching(last.args.criteria))
      [] last.op = "selectByColumnSorted" ->
            RowsAt(last.pre, {i \in 0..(Len(last.pre) - 1) :
                                 StrEq(last.pre[i + 1][columnIndexMap[last.args.columnName] + 1],
                                       last.args.value)})
      [] last.op = "selectByPkSorted" ->
            RowsAt(last.pre, PrePk(last.args.pkColumnName, last.args.pkValue))

\* A name of two columns is indexed at the last of them.
C31_Index == \A name \in DuplicateNames : columnIndexMap[name] = LastColumn(name)

\* A pk or match column of that name selects by the last column's cells.
C31_Pk ==
    \A name \in DuplicateNames :
        /\ (last.op = "selectByPk" /\ last.args.pkColumnName = name) =>
              /\ last.err = ""
              /\ Len(last.res) = (IF PreLast(name, last.args.pkValue) = {} THEN 0 ELSE 1)
              /\ Len(last.res) = 1 =>
                    \E i \in PreLast(name, last.args.pkValue) :
                        /\ \A k \in PreLast(name, last.args.pkValue) : i <= k
                        /\ last.res[1] = Decode(last.pre[i + 1])
        /\ (last.op = "selectByColumn" /\ last.args.columnName = name) =>
              /\ last.err = ""
              /\ last.res = [k \in 1..Len(RowsAt(last.pre, PreLast(name, last.args.value))) |->
                                Decode(RowsAt(last.pre, PreLast(name, last.args.value))[k])]

\* A criteria entry of that name selects by the last column's cells.
C31_Criteria ==
    \A name \in DuplicateNames :
        (last.op = "selectByColumns" /\ last.err = "" /\ AllKnown(last.args.criteria)) =>
            \A e \in 1..Len(last.args.criteria) :
                last.args.criteria[e].k = name =>
                    \A k \in 1..Len(last.res) :
                        \E i \in PreLast(name, last.args.criteria[e].v) :
                            last.res[k] = Decode(last.pre[i + 1])

\* A sort by that name orders the records by the last column's cells.
C31_Sort ==
    \A name \in DuplicateNames :
        (SortCase /\ last.args.sortBy.column = name) =>
            /\ Len(last.res) = Len(SortSelected)
            /\ \A k \in 1..Len(last.res) :
                  \E i \in 1..Len(SortSelected) :
                      last.res[k][name] = LastValue(SortSelected[i], name)
            /\ \A i, j \in 1..Len(last.res) :
                  i < j => IF last.args.sortBy.order = "ASC"
                           THEN ~JsGreater(last.res[i][name], last.res[j][name])
                           ELSE ~JsLess(last.res[i][name], last.res[j][name])

\* A target column of that name is written in the last column, and only there.
C31_Target ==
    \A name \in DuplicateNames :
        /\ (/\ last.op = "updateItemByPk"
            /\ last.args.columnName = name
            /\ last.args.pkColumnName \in DOMAIN columnIndexMap
            /\ PrePk(last.args.pkColumnName, last.args.pkValue) # {}) =>
              /\ last.err = ""
              /\ \E i \in PrePk(last.args.pkColumnName, last.args.pkValue) :
                    \A r \in RowIndices, c \in ColIndices :
                        Cell(rows, r, c) =
                            IF r = i /\ c = LastColumn(name) THEN last.args.value
                            ELSE Cell(last.pre, r, c)
        /\ (last.op = "insert" /\ name \in DOMAIN last.args.rowValues) =>
              /\ last.err = ""
              /\ \A c \in ColIndices :
                    header[c + 1] = name =>
                        Cell(rows, Len(last.pre), c) =
                            IF c = LastColumn(name) THEN last.args.rowValues[name] ELSE Empty

\* A record decodes that name to the last column's cell.
C31_Decode ==
    \A name \in DuplicateNames :
        last.op = "selectAll" =>
            /\ Len(last.res) = Len(last.pre)
            /\ \A k \in 1..Len(last.res) : last.res[k][name] = LastValue(last.pre[k], name)

\* C31: a name that heads two or more columns is indexed at the last of them,
\* and every lookup by that name - pk, criteria, sort, target column and
\* decode - reads or writes that last column.
C31_DuplicateNameLastWins ==
    /\ C31_Index
    /\ C31_Pk
    /\ C31_Criteria
    /\ C31_Sort
    /\ C31_Target
    /\ C31_Decode

\* The same without the sort.
C31_LastWinsUnsorted ==
    /\ C31_Index
    /\ C31_Pk
    /\ C31_Criteria
    /\ C31_Target
    /\ C31_Decode

\* A pk lookup by a repeated name found a row its first column would not find.
C31_LastWinsHappens ==
    /\ last.op = "selectByPk"
    /\ last.args.pkColumnName \in DuplicateNames
    /\ Len(last.res) = 1
    /\ \E i \in PreLast(last.args.pkColumnName, last.args.pkValue) :
          /\ last.res[1] = Decode(last.pre[i + 1])
          /\ ~StrEq(last.pre[i + 1][1], last.args.pkValue)

-----------------------------------------------------------------------------
(* The methods of SpreadsheetDB and the methods of the table.               *)

\* The operation of the table that matches a call made through SpreadsheetDB,
\* on the sheet as it is: a select with a sort specification is the select's
\* Sorted operation.
TableOperation(op, args) ==
    CASE op = "insert" -> insert(args.rowValues)
      [] op = "insertAll" -> insertAll(args.rowValuesArray)
      [] op = "selectByPk" ->
            (IF args.sortBy.given
             THEN selectByPkSorted(args.pkColumnName, args.pkValue, args.sortBy)
             ELSE selectByPk(args.pkColumnName, args.pkValue))
      [] op = "selectByColumn" ->
            (IF args.sortBy.given
             THEN selectByColumnSorted(args.columnName, args.value, args.sortBy)
             ELSE selectByColumn(args.columnName, args.value))
      [] op = "selectByColumnSorted" ->
            selectByColumnSorted(args.columnName, args.value, args.sortBy)
      [] op = "selectByColumns" ->
            (IF args.sortBy.given THEN selectByColumnsSorted(args.criteria, args.sortBy)
             ELSE selectByColumns(args.criteria))
      [] op = "selectAll" ->
            (IF args.sortBy.given THEN selectAllSorted(args.sortBy) ELSE selectAll)
      [] op = "selectMax" -> selectMax(args.columnName)
      [] op = "selectByPkAndIncrement" ->
            selectByPkAndIncrement(args.pkColumnName, args.pkValue, args.columnName,
                                   args.increment)
      [] op = "updateByPk" -> updateByPk(args.pkColumnName, args.pkValue, args.rowValues)
      [] op = "updateItemByPk" ->
            updateItemByPk(args.pkColumnName, args.pkValue, args.columnName, args.value)
      [] op = "updateItemByColumns" ->
            updateItemByColumns(args.criteria, args.columnName, args.value)
      [] op = "updateItemsByColumns" ->
            updateItemsByColumns(args.criteria, args.columnValues)
      [] op = "updateCells" -> updateCells(args.cellUpdates, args.answer)

\* The step is a call made through SpreadsheetDB for the sheet under study,
\* and it has the result and the effect on the sheet of the table's operation.
C32_SameAsTable ==
    LET direct == TableOperation(last'.op, last'.args)
    IN  /\ last'.err = direct.err
        /\ last'.res = direct.res
        /\ last'.val = direct.val
        /\ rows' = direct.rows

C32_Step ==
    (nops' # nops /\ last'.args.sheetName = MainSheet) => C32_SameAsTable

\* C32: every operation of the exposed surface, updateCells included, called
\* on the registry with the table name first has the result and the effect on
\* the grid of the matching operation of the table.
C32_RegistryDelegates == [][C32_Step]_vars

\* The same for every operation but updateCells.
C32_DelegatesButUpdateCells ==
    [][(nops' # nops /\ last'.args.sheetName = MainSheet /\ last'.op # "updateCells")
          => C32_SameAsTable]_vars

-----------------------------------------------------------------------------
(* The rows an update writes.                                               *)

UpdateOps ==
    {"updateByPk", "updateItemByPk", "updateItemByColumns", "updateItemsByColumns",
     "selectByPkAndIncrement"}

\* The 0-based data indices of the rows the last call matched in the data it
\* read: the first row with the pk for a call by pk, every row that satisfies
\* the criteria for a call by criteria.
MatchedByLast ==
    IF last.op \in {"updateByPk", "updateItemByPk", "selectByPkAndIncrement"}
    THEN IF last.args.pkColumnName \in DOMAIN columnIndexMap
         THEN {i \in PrePk(last.args.pkColumnName, last.args.pkValue) :
                  \A k \in PrePk(last.args.pkColumnName, last.args.pkValue) : i <= k}
         ELSE {}
    ELSE PreMatching(last.args.criteria)

\* The last call returned after writing column col of data row i.
WroteCell(i, col) ==
    CASE last.op = "updateItemByPk" ->
            Cell(rows, i, col) = StoreCell(last.args.value)
      [] last.op = "updateItemByColumns" ->
            Cell(rows, i, col) = StoreCell(last.args.value)
      [] last.op = "selectByPkAndIncrement" ->
            Cell(rows, i, col) = last.val
      [] OTHER -> TRUE

\* C33: in a call no other writer interleaves with, updateByPk, updateItemByPk,
\* updateItemByColumns, updateItemsByColumns and selectByPkAndIncrement write
\* physical row (data index of the matched record) + 2, the row that matched:
\* a row that did not match keeps its cells, and the matched row holds what
\* the call wrote.
C33_WritesMatchedRowsOnly ==
    last.op \in UpdateOps =>
        /\ \A i \in RowIndices : RowAt(rows, i) # RowAt(last.pre, i) => i \in MatchedByLast
        /\ (last.err = "" /\ last.args.columnName \in DOMAIN columnIndexMap) =>
              \A i \in MatchedByLast : WroteCell(i, columnIndexMap[last.args.columnName])
        /\ (last.op = "updateByPk" /\ last.err = "") =>
              \A i \in MatchedByLast :
                  RowAt(rows, i) = [c \in 1..Width |-> StoreCell(Encode(last.args.rowValues)[c])]

\* C33 happens: an update by criteria matched a row below the first and not
\* every row, and changed the row it matched.
C33_Witness ==
    /\ last.op = "updateItemByColumns"
    /\ last.err = ""
    /\ \E i \in MatchedByLast : i > 0 /\ RowAt(rows, i) # RowAt(last.pre, i)
    /\ \E i \in 0..(Len(last.pre) - 1) : i \notin MatchedByLast

-----------------------------------------------------------------------------
(* Updates by pk on a sheet other users change.                             *)

\* A step is the write of an update by pk.
C34_IsWrite ==
    /\ pending.active
    /\ ~pending'.active
    /\ pending.op \in {"updateItemByPk", "updateByPk"}

\* The write goes to the row number computed from the read, whatever the
\* sheet holds there by now: every other row keeps its cells, and after
\* updateItemByPk the row holds the cells as read, with the one column set.
C34_Step ==
    C34_IsWrite =>
        /\ \A i \in 0..(IF Len(rows') > Len(rows) THEN Len(rows') ELSE Len(rows)) :
              i # PendingTarget => RowAt(rows', i) = RowAt(rows, i)
        /\ pending.op = "updateItemByPk" =>
              \A c \in ColIndices :
                  Cell(rows', PendingTarget, c) =
                      IF c = columnIndexMap[pending.args.columnName]
                      THEN StoreCell(pending.args.value)
                      ELSE Cell(pending.data, PendingTarget, c)
        /\ pending.op = "updateByPk" =>
              RowAt(rows', PendingTarget) =
                  [c \in 1..Width |-> StoreCell(Encode(pending.args.rowValues)[c])]

\* C34: an update writes to the row number computed from its read even when
\* another writer inserted or deleted a row above the matched record in
\* between, so the write can land on a row that no longer holds the record;
\* the full-row rewrite of updateItemByPk puts back the cells as read, over
\* what another writer wrote to the row after the read.
C34_StaleRowWrite == [][C34_Step]_vars

\* The last call was an update by pk that wrote, and the model still holds
\* what it had read.
C34_Wrote ==
    /\ last.op \in {"updateItemByPk", "updateByPk"}
    /\ last.err = ""
    /\ ~pending.active
    /\ pending.op = last.op
    /\ pending.args = last.args
    /\ Len(last.res) = 1

\* C34 happens: a row was inserted above the matched record after the read;
\* at the time of the write the record stood one row lower, the row written
\* did not have the pk, and it now holds the update.
C34_Witness ==
    /\ C34_Wrote
    /\ last.op = "updateItemByPk"
    /\ Len(last.pre) = Len(pending.data) + 1
    /\ RowAt(last.pre, PendingTarget + 1) = RowAt(pending.data, PendingTarget)
    /\ ~StrEq(Cell(last.pre, PendingTarget, columnIndexMap[last.args.pkColumnName]),
              last.args.pkValue)
    /\ Cell(rows, PendingTarget, columnIndexMap[last.args.columnName]) = last.args.value
    /\ RowAt(rows, PendingTarget + 1) = RowAt(pending.data, PendingTarget)

\* A row above the matched record was deleted after the read, and the write
\* landed below the record.
C34_DeleteHappens ==
    /\ C34_Wrote
    /\ Len(last.pre) = Len(pending.data) - 1
    /\ PendingTarget > 0
    /\ RowAt(last.pre, PendingTarget - 1) = RowAt(pending.data, PendingTarget)
    /\ RowAt(rows, PendingTarget - 1) = RowAt(pending.data, PendingTarget)
    /\ RowAt(rows, PendingTarget) # RowAt(last.pre, PendingTarget)

\* Another writer's change to another cell of the matched row, made after
\* the read, was overwritten by updateItemByPk.
C34_OverwriteHappens ==
    /\ C34_Wrote
    /\ last.op = "updateItemByPk"
    /\ \E c \in ColIndices :
          /\ c # columnIndexMap[last.args.columnName]
          /\ Cell(last.pre, PendingTarget, c) # Cell(pending.data, PendingTarget, c)
          /\ Cell(rows, PendingTarget, c) = Cell(pending.data, PendingTarget, c)

-----------------------------------------------------------------------------
(* insertAll and insert.                                                    *)

RECURSIVE InsertEach(_, _)
\* The data rows after insert was called on each object in order, from rs.
InsertEach(rs, objs) ==
    IF objs = <<>> THEN rs
    ELSE InsertEach(appendRow(rs, createRecord_(objs[1], columnIndexMap)), Tail(objs))

\* C35: insertAll of a non-empty sequence leaves the sheet as insert called on
\* each object in order leaves it: selectAll afterwards returns the records
\* it returned before, followed by one record per object, equal to the
\* object's encoding, and no other record.
C35_InsertAllIsInserts ==
    (last.op = "insertAll" /\ Len(last.args.rowValuesArray) > 0) =>
        /\ last.err = ""
        /\ rows = InsertEach(last.pre, last.args.rowValuesArray)
        /\ selectAll.res =
              [i \in 1..(Len(last.pre) + Len(last.args.rowValuesArray)) |->
                  IF i <= Len(last.pre) THEN Decode(last.pre[i])
                  ELSE Decode(Encode(last.args.rowValuesArray[i - Len(last.pre)]))]

\* The same on a sheet whose header does not repeat a name.
C35_InsertAllIsInsertsUniqueHeader == UniqueHeader => C35_InsertAllIsInserts

-----------------------------------------------------------------------------
(* The header row.                                                          *)

\* insert, insertAll, the selects, selectMax, selectByPkAndIncrement and the
\* updates by pk and by criteria.
C36_Ops ==
    {"insert", "insertAll", "selectMax", "selectByPkAndIncrement",
     "selectByPk", "selectByColumn", "selectByColumns", "selectAll",
     "updateByPk", "updateItemByPk", "updateItemByColumns", "updateItemsByColumns"}
        \cup SortedOps

\* C36: on a sheet with a non-empty header row, insert, insertAll, the
\* selects, selectMax, selectByPkAndIncrement and the updates leave physical
\* row 1 as it was: after each such call the header row holds what it held
\* before the call, and so what it held when the table was constructed.
C36_HeaderIsKept ==
    (last.op \in C36_Ops /\ Len(last.preHeader) > 0) => header = last.preHeader

\* C36 happens: an update rewrote physical row 2, the row under the header,
\* and the header row is as before.
C36_Witness ==
    /\ last.op \in {"updateByPk", "updateItemByPk", "updateItemsByColumns"}
    /\ last.err = ""
    /\ Len(last.preHeader) > 0
    /\ RowAt(rows, 0) # RowAt(last.pre, 0)
    /\ header = last.preHeader

-----------------------------------------------------------------------------
(* The selects write nothing.                                               *)

C37_Ops ==
    {"selectByPk", "selectByColumn", "selectByColumns", "selectAll", "selectMax"}
        \cup SortedOps

\* C37: the selects, with or without a sort specification, and selectMax
\* leave every cell of the sheet as it was, whether they return or throw;
\* sorting a result does not reorder the rows of the sheet.
C37_SelectsWriteNothing ==
    last.op \in C37_Ops =>
        /\ header = last.preHeader
        /\ Len(rows) = Len(last.pre)
        /\ \A i \in RowIndices, c \in ColIndices : Cell(rows, i, c) = Cell(last.pre, i, c)

\* C37 happens: a select with a sort specification on a known column
\* returned two records or more from rows that are not in that order.
C37_Witness ==
    /\ last.op = "selectAllSorted"
    /\ SortCase
    /\ Len(last.res) >= 2
    /\ LET c == columnIndexMap[last.args.sortBy.column]
       IN  \E i, j \in 1..Len(last.pre) :
              /\ i < j
              /\ IF last.args.sortBy.order = "ASC"
                 THEN JsGreater(last.pre[i][c + 1], last.pre[j][c + 1])
                 ELSE JsLess(last.pre[i][c + 1], last.pre[j][c + 1])
    /\ rows = last.pre

\* A select that throws was called on a sheet with data.
C37_FailedSelectHappens ==
    /\ last.op \in C37_Ops
    /\ last.err # ""
    /\ Len(last.pre) > 0
    /\ rows = last.pre

-----------------------------------------------------------------------------
(* Successive increments.                                                   *)

\* The 0-based index of the first row of data whose pk cell matches.
C38_Target(data, a) ==
    LET m == {i \in 0..(Len(data) - 1) :
                 StrEq(data[i + 1][columnIndexMap[a.pkColumnName] + 1], a.pkValue)}
    IN  CHOOSE k \in m : \A j \in m : k <= j

\* The number a cell counts as: 0 for the empty cell.
C38_Old(data, a) ==
    LET cell == Cell(data, C38_Target(data, a), columnIndexMap[a.columnName])
    IN  IF cell = Empty THEN 0 ELSE cell.n

\* The amount of a call: 1 when the increment is omitted.
C38_Amount(a) == IF a.increment = Undefined THEN 1 ELSE a.increment.n

\* A selectByPkAndIncrement call with these arguments on this data finds a
\* row whose cell is a number or empty.
C38_Applies(data, a) ==
    /\ a.sheetName = MainSheet
    /\ a.pkColumnName \in DOMAIN columnIndexMap
    /\ a.columnName \in DOMAIN columnIndexMap
    /\ \E i \in 0..(Len(data) - 1) :
          StrEq(data[i + 1][columnIndexMap[a.pkColumnName] + 1], a.pkValue)
    /\ LET cell == Cell(data, C38_Target(data, a), columnIndexMap[a.columnName])
       IN  cell = Empty \/ (cell.t = "number" /\ cell.s = "")

\* The call before this step's call was an increment of the same row and
\* column.
C38_Follows ==
    /\ last.op = "selectByPkAndIncrement"
    /\ C38_Applies(last.pre, last.args)
    /\ last.args.columnName = last'.args.columnName
    /\ C38_Target(last.pre, last.args) = C38_Target(rows, last'.args)

C38_Step ==
    (nops' # nops /\ last'.op = "selectByPkAndIncrement" /\ C38_Applies(rows, last'.args)) =>
        /\ last'.err = ""
        /\ Cell(rows', C38_Target(rows, last'.args), columnIndexMap[last'.args.columnName])
              = last'.val
        /\ last'.val =
              IF C38_Follows
              THEN Num(C38_Old(last.pre, last.args) + C38_Amount(last.args)
                          + C38_Amount(last'.args))
              ELSE Num(C38_Old(rows, last'.args) + C38_Amount(last'.args))

\* C38: with no other writer, successive selectByPkAndIncrement calls on the
\* same row and column return the running sums: the first returns old + n1,
\* old being the cell's number or 0 for an empty cell, each next call returns
\* the sum so far plus its increment, and the cell holds what the last call
\* returned.
C38_RunningSums == [][C38_Step]_vars

\* C38 happens: an empty cell was incremented by 1, then by 5; the second call
\* returned 6 and the cell holds 6.  (No sheet of the model has a 1 in
\* column n and no other call writes one.)
C38_Witness ==
    /\ nops = 2
    /\ last.op = "selectByPkAndIncrement"
    /\ C38_Applies(last.pre, last.args)
    /\ C38_Amount(last.args) = 5
    /\ C38_Old(last.pre, last.args) = 1
    /\ last.val = Num(6)
    /\ Cell(rows, C38_Target(last.pre, last.args), columnIndexMap[last.args.columnName]) = Num(6)


\* C39: a get(name) that fails because the spreadsheet has no sheet of that
\* name leaves the registry's cache as it was, and the next get(name), made
\* after the sheet has been added, makes a table of the sheet, stores it and
\* returns it: the table carries the column map of the sheet's header row.
C39_IsGet == nops' = nops + 1 /\ last'.op = "getSheetTable_"

C39_FailedGetCachesNothing ==
    (C39_IsGet /\ last'.err # "") =>
        /\ last'.args.sheetName \notin sheets
        /\ sheetMap' = sheetMap
        /\ last'.val = Undefined

C39_LaterGetMakesTable ==
    (/\ C39_IsGet
     /\ last.op = "getSheetTable_" /\ last.err # ""
     /\ last'.args.sheetName = last.args.sheetName
     /\ last.args.sheetName \in sheets) =>
        LET name == last.args.sheetName
        IN  /\ last'.err = ""
            /\ name \notin DOMAIN sheetMap
            /\ DOMAIN sheetMap' = DOMAIN sheetMap \cup {name}
            /\ \A n \in DOMAIN sheetMap : sheetMap'[n] = sheetMap[n]
            /\ sheetMap'[name].sheetName = name
            /\ sheetMap'[name].headers = HeaderOf(name)
            /\ sheetMap'[name].columnIndexMap = createColumnIndexMap_(HeaderOf(name))
            /\ last'.val = TableRef(sheetMap'[name])

C39_FailedGetLeavesNoEntry ==
    [][C39_FailedGetCachesNothing /\ C39_LaterGetMakesTable]_vars

\* The get of "Orders" failed, nothing is cached, another user has added the
\* sheet since, and the script can ask again.
C39_Witness ==
    /\ last.op = "getSheetTable_" /\ last.err = "NotFound"
    /\ last.args.sheetName = MainSheet
    /\ MainSheet \in sheets
    /\ sheetMap = <<>>
    /\ nops < MaxOps

\* The table of the added sheet has been made and a call on it has returned.
C39_TableWorks ==
    /\ nedits = 1
    /\ DOMAIN sheetMap = {MainSheet}
    /\ sheetMap[MainSheet].id = 1
    /\ last.op = "selectAll" /\ last.err = ""

====
